---- MODULE Spec2Model ----
(***************************************************************************)
(* MOSe: a 6502 processor core in JavaScript.  Two classes are modelled:   *)
(*   "mose"  (release 010426.330, src/unnamed/part_001): NMI latch, break  *)
(*           flag, decimal mode, configurable RAM size, page-cross cycle   *)
(*           added inside each opcode handler;                             *)
(*   "MOSE"  (src/mosecore_r211225.235.js): the earlier core, page-cross   *)
(*           cycle added centrally through needsPageCrossPenalty.          *)
(* A processor instance is the record `cpu`; every method of the classes   *)
(* is an operator from a record to the record after the call.  Numbers are *)
(* JavaScript numbers: x & 0xFF is x % 256 (two's complement, also for a   *)
(* negative x), x >> n is floor division by 2^n, and this.PC++ is an       *)
(* unmasked increment.                                                     *)
(***************************************************************************)
EXTENDS Integers, Sequences, FiniteSets, TLC

VARIABLES
  cpu,     \* the processor instance (all fields of the object)
  pre,     \* history: the instance as it was when the last call was made
  last,    \* history: the last call, its arguments and the path it took
  ret,     \* history: the value the last call returned (-1: a void method)
  budget   \* calls the host may still make in this run

vars == <<cpu, pre, last, ret, budget>>

----------------------------------------------------------------------------
(* Bit arithmetic on non-negative integers, as JavaScript's &, | and ^.    *)

RECURSIVE BitAnd(_, _)
BitAnd(a, b) ==
  IF a = 0 \/ b = 0 THEN 0
  ELSE (a % 2) * (b % 2) + 2 * BitAnd(a \div 2, b \div 2)

RECURSIVE BitOr(_, _)
BitOr(a, b) ==
  IF a = 0 THEN b
  ELSE IF b = 0 THEN a
  ELSE (IF a % 2 = 1 \/ b % 2 = 1 THEN 1 ELSE 0) + 2 * BitOr(a \div 2, b \div 2)

RECURSIVE BitXor(_, _)
BitXor(a, b) ==
  IF a = 0 THEN b
  ELSE IF b = 0 THEN a
  ELSE ((a + b) % 2) + 2 * BitXor(a \div 2, b \div 2)

\* bit n of x; floor division makes this the two's-complement bit of a negative x
Bit(x, n) == (x \div (2 ^ n)) % 2

Byte == 0 .. 255

----------------------------------------------------------------------------
(* Memory.  The typed array is zero-filled at construction, so it is kept  *)
(* as the function from the addresses that hold a non-zero byte to that    *)
(* byte; c.len is the array's length.                                      *)

\* ramSizeMap[ramSizeKB] || 0x10000
ramSizeMap(ramSizeKB) ==
  CASE ramSizeKB = 4  -> 4096
    [] ramSizeKB = 8  -> 8192
    [] ramSizeKB = 16 -> 16384
    [] ramSizeKB = 32 -> 32768
    [] ramSizeKB = 48 -> 49152
    [] OTHER          -> 65536

cell(c, a) == IF a \in DOMAIN c.ram THEN c.ram[a] ELSE 0

read_noLength(c, addr) == cell(c, addr % 65536) % 256

\* mose: a read at or above the array's length gives 0xFF.
\* MOSE: memory[addr & 0xFFFF] & 0xFF, where an index outside the array is
\*       undefined and undefined & 0xFF is 0.
read(c, addr) ==
  LET a == addr % 65536 IN
  IF a < c.len THEN cell(c, a) % 256
  ELSE IF c.cls = "mose" THEN 255 ELSE 0

store(ram, a, v) ==
  IF v = 0 THEN [x \in DOMAIN ram \ {a} |-> ram[x]]
  ELSE [x \in DOMAIN ram \cup {a} |-> IF x = a THEN v ELSE ram[x]]

write_shortRam(c, addr, val) ==
  LET a == addr % 65536
      v == val % 256
  IN IF a < c.len - 1 THEN [c EXCEPT !.ram = store(c.ram, a, v)] ELSE c

\* a write outside the array is dropped (mose: the length test; MOSE: the
\* typed array ignores an index outside it)
write(c, addr, val) ==
  LET a == addr % 65536
      v == val % 256
  IN IF a < c.len THEN [c EXCEPT !.ram = store(c.ram, a, v)] ELSE c

----------------------------------------------------------------------------
(* Stack and status register.                                              *)

push(c, v) ==
  LET c1 == write(c, 256 + (c.S % 256), v % 256)
  IN [c1 EXCEPT !.S = (c.S - 1) % 256]

pop_noWrap(c) ==
  LET c1 == [c EXCEPT !.S = c.S + 1]
  IN [cpu |-> c1, value |-> read(c1, 256 + c1.S)]

\* pop() returns a byte and moves S: the pair (instance after, byte)
pop(c) ==
  LET c1 == [c EXCEPT !.S = (c.S + 1) % 256]
  IN [cpu |-> c1, value |-> read(c1, 256 + (c1.S % 256))]

setZN(c, v0) ==
  LET v == v0 % 256
  IN [c EXCEPT !.Z = IF v = 0 THEN 1 ELSE 0,
               !.N = IF Bit(v, 7) = 1 THEN 1 ELSE 0]

\* (N << 7) | (V << 6) | (1 << 5) | (B << 4) | (D << 3) | (I << 2) | (Z << 1) | C
getStatus_noBit5(c) ==
  BitOr(c.N * 128, BitOr(c.V * 64, BitOr(c.B * 16,
    BitOr(c.D * 8, BitOr(c.I * 4, BitOr(c.Z * 2, c.C))))))

getStatus(c) ==
  BitOr(c.N * 128, BitOr(c.V * 64, BitOr(32, BitOr(c.B * 16,
    BitOr(c.D * 8, BitOr(c.I * 4, BitOr(c.Z * 2, c.C)))))))

setStatus_noDecimal(c, v) ==
  [c EXCEPT !.N = Bit(v, 7), !.V = Bit(v, 6), !.B = Bit(v, 4),
            !.I = Bit(v, 2), !.Z = Bit(v, 1), !.C = Bit(v, 0)]

setStatus(c, v) ==
  [c EXCEPT !.N = Bit(v, 7), !.V = Bit(v, 6), !.B = Bit(v, 4),
            !.D = Bit(v, 3), !.I = Bit(v, 2), !.Z = Bit(v, 1), !.C = Bit(v, 0)]

checkPageCross(a, b) == ((a \div 256) % 256) # ((b \div 256) % 256)

----------------------------------------------------------------------------
(* Addressing modes.  Each consumes its operand bytes (this.PC++, not      *)
(* masked) and yields the instance after, the effective address, the byte  *)
(* read there and whether a page boundary was crossed.  MOSE's resolvers   *)
(* also leave the page-cross result in the field pageCrossed.              *)

Operand(c, a, v, pc) == [cpu |-> c, address |-> a, value |-> v, pageCrossed |-> pc]

\* MOSE: this.pageCrossed = ...; mose has no such field to set
notePageCross(c, pc) == IF c.cls = "MOSE" THEN [c EXCEPT !.pageCrossed = pc] ELSE c

imp(c) == Operand(c, 0, 0, FALSE)

imm_stay(c) == Operand(c, c.PC, read(c, c.PC), FALSE)

imm(c) ==
  LET addr == c.PC
      c1   == [c EXCEPT !.PC = c.PC + 1]
  IN Operand(c1, addr, read(c1, addr), FALSE)

zp(c) ==
  LET zpAddr == read(c, c.PC)
      c1     == [c EXCEPT !.PC = c.PC + 1]
  IN Operand(c1, zpAddr, read(c1, zpAddr), FALSE)

zpx(c) ==
  LET zpAddr == (read(c, c.PC) + c.X) % 256
      c1     == [c EXCEPT !.PC = c.PC + 1]
  IN Operand(c1, zpAddr, read(c1, zpAddr), FALSE)

zpy(c) ==
  LET zpAddr == (read(c, c.PC) + c.Y) % 256
      c1     == [c EXCEPT !.PC = c.PC + 1]
  IN Operand(c1, zpAddr, read(c1, zpAddr), FALSE)

\* the little-endian word at PC, PC+1: ((hi << 8) | lo) & 0xFFFF
absWord(c) == (BitOr(read(c, c.PC + 1) * 256, read(c, c.PC))) % 65536

abs(c) ==
  LET addr == absWord(c)
      c1   == [c EXCEPT !.PC = c.PC + 2]
  IN Operand(c1, addr, read(c1, addr), FALSE)

\* absx that never reports a page cross
absx_noCross(c) ==
  LET base == absWord(c)
      addr == (base + c.X) % 65536
      c1   == notePageCross([c EXCEPT !.PC = c.PC + 2], FALSE)
  IN Operand(c1, addr, read(c1, addr), FALSE)

absx(c) ==
  LET base == absWord(c)
      addr == (base + c.X) % 65536
      pc   == checkPageCross(base, addr)
      c1   == notePageCross([c EXCEPT !.PC = c.PC + 2], pc)
  IN Operand(c1, addr, read(c1, addr), pc)

absy(c) ==
  LET base == absWord(c)
      addr == (base + c.Y) % 65536
      pc   == checkPageCross(base, addr)
      c1   == notePageCross([c EXCEPT !.PC = c.PC + 2], pc)
  IN Operand(c1, addr, read(c1, addr), pc)

\* an indirect JMP without the page wrap: the high byte always from ptr + 1
indHighAddr_noWrap(c, ptr) == (ptr + 1) % 65536

\* the address the indirect JMP takes its target's high byte from.
\* mose: the page wrap only with emulateIndirectJMPBug and a pointer low byte
\* of 0xFF; MOSE: always (ptr & 0xFF00) | ((ptr + 1) & 0xFF).
indHighAddr(c, ptr) ==
  IF c.cls = "MOSE" THEN (ptr \div 256) * 256 + ((ptr + 1) % 256)
  ELSE IF c.emulateIndirectJMPBug /\ ptr % 256 = 255 THEN (ptr \div 256) * 256
  ELSE (ptr + 1) % 65536

ind(c) ==
  LET ptr  == absWord(c)
      c1   == [c EXCEPT !.PC = c.PC + 2]
      low  == read(c1, ptr)
      high == read(c1, indHighAddr(c1, ptr))
  IN Operand(c1, (BitOr(high * 256, low)) % 65536, 0, FALSE)

indx(c) ==
  LET z    == (read(c, c.PC) + c.X) % 256
      c1   == [c EXCEPT !.PC = c.PC + 1]
      lo   == read(c1, z % 256)
      hi   == read(c1, (z + 1) % 256)
      addr == (BitOr(hi * 256, lo)) % 65536
  IN Operand(c1, addr, read(c1, addr), FALSE)

indy_intoPageOne(c) ==
  LET z    == read(c, c.PC) % 256
      lo   == read(c, z)
      hi   == read(c, z + 1)
      base == (BitOr(hi * 256, lo)) % 65536
      addr == (base + c.Y) % 65536
      pc   == checkPageCross(base, addr)
      c1   == notePageCross([c EXCEPT !.PC = c.PC + 1], pc)
  IN Operand(c1, addr, read(c1, addr), pc)

indy(c) ==
  LET z    == read(c, c.PC) % 256
      lo   == read(c, z)
      hi   == read(c, (z + 1) % 256)
      base == (BitOr(hi * 256, lo)) % 65536
      addr == (base + c.Y) % 65536
      pc   == checkPageCross(base, addr)
      c1   == notePageCross([c EXCEPT !.PC = c.PC + 1], pc)
  IN Operand(c1, addr, read(c1, addr), pc)

\* mose reports pageCrossed: false and lets the branch test the pages itself;
\* MOSE stores checkPageCross(PC, target) for the branch to use.
rel(c) ==
  LET off    == read(c, c.PC)
      pcn    == c.PC + 1
      target == IF Bit(off, 7) = 1 THEN (pcn + off - 256) % 65536
                ELSE (pcn + off) % 65536
      c1     == notePageCross([c EXCEPT !.PC = pcn], checkPageCross(pcn, target))
  IN Operand(c1, target, 0, FALSE)

\* MOSE's undocumented NOPs skip their operand with this.PC++ / this.PC += 2
skip1(c) == Operand([c EXCEPT !.PC = c.PC + 1], 0, 0, FALSE)

skip2(c) == Operand([c EXCEPT !.PC = c.PC + 2], 0, 0, FALSE)

resolve(c, mode) ==
  CASE mode = "imp"   -> imp(c)
    [] mode = "imm"   -> imm(c)
    [] mode = "zp"    -> zp(c)
    [] mode = "zpx"   -> zpx(c)
    [] mode = "zpy"   -> zpy(c)
    [] mode = "abs"   -> abs(c)
    [] mode = "absx"  -> absx(c)
    [] mode = "absy"  -> absy(c)
    [] mode = "ind"   -> ind(c)
    [] mode = "indx"  -> indx(c)
    [] mode = "indy"  -> indy(c)
    [] mode = "rel"   -> rel(c)
    [] mode = "skip1" -> skip1(c)
    [] mode = "skip2" -> skip2(c)

----------------------------------------------------------------------------
(* Operations.  v is an operand byte, a an effective address.              *)

LDA(c, v) == LET c1 == [c EXCEPT !.A = v % 256] IN setZN(c1, c1.A)
STA(c, a) == write(c, a, c.A)
LDX(c, v) == LET c1 == [c EXCEPT !.X = v % 256] IN setZN(c1, c1.X)
STX(c, a) == write(c, a, c.X)
LDY(c, v) == LET c1 == [c EXCEPT !.Y = v % 256] IN setZN(c1, c1.Y)
STY(c, a) == write(c, a, c.Y)

TAX(c) == LET c1 == [c EXCEPT !.X = c.A % 256] IN setZN(c1, c1.X)
TXA(c) == LET c1 == [c EXCEPT !.A = c.X % 256] IN setZN(c1, c1.A)
TAY(c) == LET c1 == [c EXCEPT !.Y = c.A % 256] IN setZN(c1, c1.Y)
TYA(c) == LET c1 == [c EXCEPT !.A = c.Y % 256] IN setZN(c1, c1.A)
TSX(c) == LET c1 == [c EXCEPT !.X = c.S % 256] IN setZN(c1, c1.X)
TXS(c) == [c EXCEPT !.S = c.X % 256]

PHA(c) == push(c, c.A)
PLA(c) == LET p == pop(c) c1 == [p.cpu EXCEPT !.A = p.value] IN setZN(c1, c1.A)
PHP_asIs(c) == push(c, getStatus(c))

PHP(c) == push(c, BitOr(getStatus(c), 16))

PLP_keepB(c) == LET p == pop(c) IN [setStatus(p.cpu, p.value) EXCEPT !.B = c.B]

PLP(c) == LET p == pop(c) IN setStatus(p.cpu, p.value)

INX(c) == LET c1 == [c EXCEPT !.X = (c.X + 1) % 256] IN setZN(c1, c1.X)
DEX(c) == LET c1 == [c EXCEPT !.X = (c.X - 1) % 256] IN setZN(c1, c1.X)
INY(c) == LET c1 == [c EXCEPT !.Y = (c.Y + 1) % 256] IN setZN(c1, c1.Y)
DEY(c) == LET c1 == [c EXCEPT !.Y = (c.Y - 1) % 256] IN setZN(c1, c1.Y)

INC(c, a) == LET v == (read(c, a) + 1) % 256 IN setZN(write(c, a, v), v)
DEC(c, a) == LET v == (read(c, a) - 1) % 256 IN setZN(write(c, a, v), v)

CLC(c) == [c EXCEPT !.C = 0]
SEC(c) == [c EXCEPT !.C = 1]
CLI(c) == [c EXCEPT !.I = 0]
SEI(c) == [c EXCEPT !.I = 1]
CLV(c) == [c EXCEPT !.V = 0]
CLD(c) == [c EXCEPT !.D = 0]
SED(c) == [c EXCEPT !.D = 1]

NOP(c) == c

JMP(c, a) == [c EXCEPT !.PC = a % 65536]

JSR_lowFirst(c, a) ==
  LET r  == (c.PC - 1) % 65536
      c1 == push(c, r % 256)
      c2 == push(c1, (r \div 256) % 256)
  IN [c2 EXCEPT !.PC = a % 65536]

JSR(c, a) ==
  LET r  == (c.PC - 1) % 65536
      c1 == push(c, (r \div 256) % 256)
      c2 == push(c1, r % 256)
  IN [c2 EXCEPT !.PC = a % 65536]

RTS(c) ==
  LET p1 == pop(c)
      p2 == pop(p1.cpu)
  IN [p2.cpu EXCEPT !.PC = (BitOr(p2.value * 256, p1.value) + 1) % 65536]

BRK_noSignature(c) ==
  LET c1 == [c EXCEPT !.B = 1, !.PC = c.PC % 65536]
      c2 == push(c1, (c1.PC \div 256) % 256)
      c3 == push(c2, c1.PC % 256)
      c4 == push(c3, BitOr(getStatus(c3), 16))
      c5 == [c4 EXCEPT !.I = 1]
      lo == read(c5, 65534)
      hi == read(c5, 65535)
  IN [c5 EXCEPT !.PC = BitOr(hi * 256, lo) % 65536]

BRK(c) ==
  LET c1 == [c EXCEPT !.B = 1, !.PC = (c.PC + 1) % 65536]
      c2 == push(c1, (c1.PC \div 256) % 256)
      c3 == push(c2, c1.PC % 256)
      c4 == push(c3, BitOr(getStatus(c3), 16))
      c5 == [c4 EXCEPT !.I = 1]
      lo == read(c5, 65534)
      hi == read(c5, 65535)
  IN [c5 EXCEPT !.PC = BitOr(hi * 256, lo) % 65536]

RTI(c) ==
  LET p0 == pop(c)
      c1 == setStatus(p0.cpu, p0.value)
      p1 == pop(c1)
      p2 == pop(p1.cpu)
  IN [p2.cpu EXCEPT !.PC = BitOr(p2.value * 256, p1.value) % 65536]

\* a branch that charges a taken branch one cycle whatever the target's page
branch_flat(c, taken, target) ==
  IF ~taken THEN c
  ELSE [c EXCEPT !.cycles = c.cycles + 1, !.PC = target]

\* A taken branch costs one cycle more, and one more again when the target is
\* in another page than the PC after the operand.  mose tests the pages in
\* the branch; MOSE uses the pageCrossed its rel() stored.
branch(c, taken, target) ==
  IF ~taken THEN c
  ELSE LET crossed == IF c.cls = "MOSE" THEN c.pageCrossed
                      ELSE checkPageCross(c.PC, target)
       IN [c EXCEPT !.cycles = c.cycles + 1 + (IF crossed THEN 1 ELSE 0),
                    !.PC = target]

BCC(c, t) == branch(c, c.C = 0, t)
BCS(c, t) == branch(c, c.C = 1, t)
BEQ(c, t) == branch(c, c.Z = 1, t)
BNE(c, t) == branch(c, c.Z = 0, t)
BPL(c, t) == branch(c, c.N = 0, t)
BMI(c, t) == branch(c, c.N = 1, t)
BVC(c, t) == branch(c, c.V = 0, t)
BVS(c, t) == branch(c, c.V = 1, t)

\* (this.C ? 1 : 0)
carryIn(c) == IF c.C # 0 THEN 1 ELSE 0

\* ((~(A ^ v) & (A ^ r)) & 0x80) ? 1 : 0, r taken in two's complement
overflowADC(a, v, r) ==
  IF Bit(BitXor(a, v), 7) = 0 /\ Bit(BitXor(a, r % 256), 7) = 1 THEN 1 ELSE 0

\* (((A ^ v) & (A ^ r)) & 0x80) ? 1 : 0
overflowSBC(a, v, r) ==
  IF Bit(BitXor(a, v), 7) = 1 /\ Bit(BitXor(a, r % 256), 7) = 1 THEN 1 ELSE 0

ADCbinary_noCarryIn(c, v) ==
  LET sum == c.A + v
      c1  == [c EXCEPT !.C = IF sum > 255 THEN 1 ELSE 0,
                       !.V = overflowADC(c.A, v, sum),
                       !.A = sum % 256]
  IN setZN(c1, c1.A)

ADCbinary(c, v) ==
  LET sum == c.A + v + carryIn(c)
      c1  == [c EXCEPT !.C = IF sum > 255 THEN 1 ELSE 0,
                       !.V = overflowADC(c.A, v, sum),
                       !.A = sum % 256]
  IN setZN(c1, c1.A)

\* decimal ADC that stores the corrected sum without & 0xFF
ADCdecimal_unmasked(c, v) ==
  LET al0 == (c.A % 16) + (v % 16) + carryIn(c)
      ah0 == (c.A \div 16) + (v \div 16)
      al  == IF al0 > 9 THEN al0 + 6 ELSE al0
      ah1 == IF al0 > 9 THEN ah0 + 1 ELSE ah0
      binaryResult == c.A + v + carryIn(c)
      c1  == setZN(c, binaryResult % 256)
      ah  == IF ah1 > 9 THEN ah1 + 6 ELSE ah1
  IN [c1 EXCEPT !.V = overflowADC(c.A, v, binaryResult),
                !.C = IF ah > 15 THEN 1 ELSE 0,
                !.A = ah * 16 + (al % 16)]

ADCdecimal(c, v) ==
  LET al0 == (c.A % 16) + (v % 16) + carryIn(c)
      ah0 == (c.A \div 16) + (v \div 16)
      al  == IF al0 > 9 THEN al0 + 6 ELSE al0
      ah1 == IF al0 > 9 THEN ah0 + 1 ELSE ah0
      binaryResult == c.A + v + carryIn(c)
      c1  == setZN(c, binaryResult % 256)
      ah  == IF ah1 > 9 THEN ah1 + 6 ELSE ah1
  IN [c1 EXCEPT !.V = overflowADC(c.A, v, binaryResult),
                !.C = IF ah > 15 THEN 1 ELSE 0,
                !.A = (ah * 16 + (al % 16)) % 256]

\* MOSE has the binary sum only; mose honours the D flag (this.D === 0)
ADC(c, v0) ==
  LET v == v0 % 256
  IN IF c.cls = "MOSE" \/ c.D = 0 THEN ADCbinary(c, v) ELSE ADCdecimal(c, v)

SBCdecimal_flagsFromA(c, v) ==
  LET al0 == (c.A % 16) - (v % 16) - (IF c.C # 0 THEN 0 ELSE 1)
      ah0 == (c.A \div 16) - (v \div 16)
      al  == IF al0 < 0 THEN al0 - 6 ELSE al0
      ah1 == IF al0 < 0 THEN ah0 - 1 ELSE ah0
      binaryResult == c.A - v - (IF c.C # 0 THEN 0 ELSE 1)
      ah  == IF ah1 < 0 THEN ah1 - 6 ELSE ah1
      c1  == setZN(c, (ah * 16 + (al % 16)) % 256)
  IN [c1 EXCEPT !.V = overflowSBC(c.A, v, binaryResult),
                !.C = IF ah >= 0 THEN 1 ELSE 0,
                !.A = (ah * 16 + (al % 16)) % 256]

SBCdecimal_noHighAdjust(c, v) ==
  LET al0 == (c.A % 16) - (v % 16) - (IF c.C # 0 THEN 0 ELSE 1)
      ah0 == (c.A \div 16) - (v \div 16)
      al  == IF al0 < 0 THEN al0 - 6 ELSE al0
      ah  == IF al0 < 0 THEN ah0 - 1 ELSE ah0
      binaryResult == c.A - v - (IF c.C # 0 THEN 0 ELSE 1)
      c1  == setZN(c, binaryResult % 256)
  IN [c1 EXCEPT !.V = overflowSBC(c.A, v, binaryResult),
                !.C = IF ah >= 0 THEN 1 ELSE 0,
                !.A = (ah * 16 + (al % 16)) % 256]

SBCdecimal(c, v) ==
  LET al0 == (c.A % 16) - (v % 16) - (IF c.C # 0 THEN 0 ELSE 1)
      ah0 == (c.A \div 16) - (v \div 16)
      al  == IF al0 < 0 THEN al0 - 6 ELSE al0
      ah1 == IF al0 < 0 THEN ah0 - 1 ELSE ah0
      binaryResult == c.A - v - (IF c.C # 0 THEN 0 ELSE 1)
      c1  == setZN(c, binaryResult % 256)
      ah  == IF ah1 < 0 THEN ah1 - 6 ELSE ah1
  IN [c1 EXCEPT !.V = overflowSBC(c.A, v, binaryResult),
                !.C = IF ah >= 0 THEN 1 ELSE 0,
                !.A = (ah * 16 + (al % 16)) % 256]

SBC_uncomplemented(c, v0) ==
  LET v == v0 % 256
  IN IF c.cls = "MOSE" \/ c.D = 0 THEN ADC(c, v)
     ELSE SBCdecimal(c, v)

SBC(c, v0) ==
  LET v == v0 % 256
  IN IF c.cls = "MOSE" \/ c.D = 0 THEN ADC(c, BitXor(v, 255) % 256)
     ELSE SBCdecimal(c, v)

AND(c, v) == LET c1 == [c EXCEPT !.A = BitAnd(c.A, v % 256)] IN setZN(c1, c1.A)
ORA(c, v) == LET c1 == [c EXCEPT !.A = BitOr(c.A, v % 256)] IN setZN(c1, c1.A)
EOR(c, v) == LET c1 == [c EXCEPT !.A = BitXor(c.A, v % 256)] IN setZN(c1, c1.A)

\* r = (reg - (v & 0xFF)) & 0x1FF; C = r < 0x100; setZN(r & 0xFF)
compare_strict(c, reg, v) ==
  LET r == (reg - (v % 256)) % 512
  IN setZN([c EXCEPT !.C = IF r < 256 /\ r # 0 THEN 1 ELSE 0], r % 256)

compare(c, reg, v) ==
  LET r == (reg - (v % 256)) % 512
  IN setZN([c EXCEPT !.C = IF r < 256 THEN 1 ELSE 0], r % 256)

CMP(c, v) == compare(c, c.A, v)
CPX(c, v) == compare(c, c.X, v)
CPY(c, v) == compare(c, c.Y, v)

BIT_fromResult(c, v0) ==
  LET v == BitAnd(c.A, v0 % 256)
  IN [c EXCEPT !.Z = IF v # 0 THEN 0 ELSE 1,
               !.N = IF Bit(v, 7) = 1 THEN 1 ELSE 0,
               !.V = IF Bit(v, 6) = 1 THEN 1 ELSE 0]

BIT(c, v0) ==
  LET v == v0 % 256
  IN [c EXCEPT !.Z = IF BitAnd(c.A, v) # 0 THEN 0 ELSE 1,
               !.N = IF Bit(v, 7) = 1 THEN 1 ELSE 0,
               !.V = IF Bit(v, 6) = 1 THEN 1 ELSE 0]

ASL_A(c) ==
  LET c1 == [c EXCEPT !.C = Bit(c.A, 7), !.A = (c.A * 2) % 256] IN setZN(c1, c1.A)

ASL(c, a) ==
  LET v0 == read(c, a)
      v  == (v0 * 2) % 256
  IN setZN(write([c EXCEPT !.C = Bit(v0, 7)], a, v), v)

LSR_A(c) ==
  LET c1 == [c EXCEPT !.C = c.A % 2, !.A = (c.A \div 2) % 256] IN setZN(c1, c1.A)

LSR(c, a) ==
  LET v0 == read(c, a)
      v  == (v0 \div 2) % 256
  IN setZN(write([c EXCEPT !.C = v0 % 2], a, v), v)

ROL_A(c) ==
  LET oldC == c.C
      c1   == [c EXCEPT !.C = Bit(c.A, 7), !.A = BitOr(c.A * 2, oldC) % 256]
  IN setZN(c1, c1.A)

ROL(c, a) ==
  LET v0   == read(c, a)
      oldC == c.C
      v    == BitOr(v0 * 2, oldC) % 256
  IN setZN(write([c EXCEPT !.C = Bit(v0, 7)], a, v), v)

ROR_A(c) ==
  LET oldC == c.C
      c1   == [c EXCEPT !.C = c.A % 2, !.A = BitOr(c.A \div 2, oldC * 128) % 256]
  IN setZN(c1, c1.A)

ROR(c, a) ==
  LET v0   == read(c, a)
      oldC == c.C
      v    == BitOr(v0 \div 2, oldC * 128) % 256
  IN setZN(write([c EXCEPT !.C = v0 % 2], a, v), v)

\* Undocumented operations: compositions of the ones above
LAX(c, v) == LET c1 == [c EXCEPT !.A = v % 256, !.X = v % 256] IN setZN(c1, c1.A)
SAX(c, a) == write(c, a, BitAnd(c.A, c.X))
DCP(c, a) == LET c1 == DEC(c, a) IN CMP(c1, read(c1, a))
ISC(c, a) == LET c1 == INC(c, a) IN SBC(c1, read(c1, a))
SLO(c, a) == LET c1 == ASL(c, a) IN ORA(c1, read(c1, a))
RLA(c, a) == LET c1 == ROL(c, a) IN AND(c1, read(c1, a))
SRE(c, a) == LET c1 == LSR(c, a) IN EOR(c1, read(c1, a))
RRA(c, a) == LET c1 == ROR(c, a) IN ADC(c1, read(c1, a))
ANC(c, v) == LET c1 == AND(c, v) IN [c1 EXCEPT !.C = c1.N]
ALR(c, v) == LSR_A(AND(c, v))

ARR(c, v) ==
  LET c1 == ROR_A(AND(c, v))
  IN [c1 EXCEPT !.C = Bit(c1.A, 6),
                !.V = BitXor(c1.A \div 64, c1.A \div 32) % 2]

XAA(c, v) == LET c1 == [c EXCEPT !.A = BitAnd(c.X, v % 256)] IN setZN(c1, c1.A)

AXS(c, v) ==
  LET temp   == BitAnd(c.A, c.X) % 256
      result == temp - (v % 256)
      c1     == [c EXCEPT !.X = result % 256, !.C = IF result >= 0 THEN 1 ELSE 0]
  IN setZN(c1, c1.X)

SHY(c, a) == write(c, a, BitAnd(c.Y, ((a \div 256) + 1) % 256))
SHX(c, a) == write(c, a, BitAnd(c.X, ((a \div 256) + 1) % 256))

\* a default handler that leaves PC after the opcode
KIL_noRewind(c) == c

\* the default handler of every opcode that is given no operation
KIL(c) == [c EXCEPT !.PC = (c.PC - 1) % 65536]

----------------------------------------------------------------------------
(* The dispatch tables built by setupCycleTiming and setupInstructions.    *)
(* An entry of the instruction map is <<addressing mode, operation, whether *)
(* the handler itself adds a cycle on a page cross>>; the opcodes that are *)
(* assigned no handler keep the default one, KIL.  Index: opcode + 1.      *)

cycleTable == <<
  7,6,2,8,3,3,5,5,3,2,2,2,4,4,6,6,2,5,2,8,4,4,6,6,2,4,2,7,4,4,7,7,
  6,6,2,8,3,3,5,5,4,2,2,2,4,4,6,6,2,5,2,8,4,4,6,6,2,4,2,7,4,4,7,7,
  6,6,2,8,3,3,5,5,3,2,2,2,3,4,6,6,2,5,2,8,4,4,6,6,2,4,2,7,4,4,7,7,
  6,6,2,8,3,3,5,5,4,2,2,2,5,4,6,6,2,5,2,8,4,4,6,6,2,4,2,7,4,4,7,7,
  2,6,2,6,3,3,3,3,2,2,2,2,4,4,4,4,2,6,2,6,4,4,4,4,2,5,2,5,5,5,5,5,
  2,6,2,6,3,3,3,3,2,2,2,2,4,4,4,4,2,5,2,5,4,4,4,4,2,4,2,4,4,4,4,4,
  2,6,2,8,3,3,5,5,2,2,2,2,4,4,6,6,2,5,2,8,4,4,6,6,2,4,2,7,4,4,7,7,
  2,6,2,8,3,3,5,5,2,2,2,2,4,4,6,6,2,5,2,8,4,4,6,6,2,4,2,7,4,4,7,7
>>

moseMap == <<
  <<"imp", "BRK", FALSE>>, <<"indx", "ORA", FALSE>>, <<"imp", "KIL", FALSE>>, <<"indx", "SLO", FALSE>>,  \* 00
  <<"zp", "NOP", FALSE>>, <<"zp", "ORA", FALSE>>, <<"zp", "ASL", FALSE>>, <<"zp", "SLO", FALSE>>,  \* 04
  <<"imp", "PHP", FALSE>>, <<"imm", "ORA", FALSE>>, <<"imp", "ASL_A", FALSE>>, <<"imm", "ANC", FALSE>>,  \* 08
  <<"abs", "NOP", FALSE>>, <<"abs", "ORA", FALSE>>, <<"abs", "ASL", FALSE>>, <<"abs", "SLO", FALSE>>,  \* 0C
  <<"rel", "BPL", FALSE>>, <<"indy", "ORA", TRUE>>, <<"imp", "KIL", FALSE>>, <<"indy", "SLO", FALSE>>,  \* 10
  <<"zpx", "NOP", FALSE>>, <<"zpx", "ORA", FALSE>>, <<"zpx", "ASL", FALSE>>, <<"zpx", "SLO", FALSE>>,  \* 14
  <<"imp", "CLC", FALSE>>, <<"absy", "ORA", TRUE>>, <<"imp", "NOP", FALSE>>, <<"absy", "SLO", FALSE>>,  \* 18
  <<"absx", "NOP", TRUE>>, <<"absx", "ORA", TRUE>>, <<"absx", "ASL", FALSE>>, <<"absx", "SLO", FALSE>>,  \* 1C
  <<"abs", "JSR", FALSE>>, <<"indx", "AND", FALSE>>, <<"imp", "KIL", FALSE>>, <<"indx", "RLA", FALSE>>,  \* 20
  <<"zp", "BIT", FALSE>>, <<"zp", "AND", FALSE>>, <<"zp", "ROL", FALSE>>, <<"zp", "RLA", FALSE>>,  \* 24
  <<"imp", "PLP", FALSE>>, <<"imm", "AND", FALSE>>, <<"imp", "ROL_A", FALSE>>, <<"imm", "ANC", FALSE>>,  \* 28
  <<"abs", "BIT", FALSE>>, <<"abs", "AND", FALSE>>, <<"abs", "ROL", FALSE>>, <<"abs", "RLA", FALSE>>,  \* 2C
  <<"rel", "BMI", FALSE>>, <<"indy", "AND", TRUE>>, <<"imp", "KIL", FALSE>>, <<"indy", "RLA", FALSE>>,  \* 30
  <<"zpx", "NOP", FALSE>>, <<"zpx", "AND", FALSE>>, <<"zpx", "ROL", FALSE>>, <<"zpx", "RLA", FALSE>>,  \* 34
  <<"imp", "SEC", FALSE>>, <<"absy", "AND", TRUE>>, <<"imp", "NOP", FALSE>>, <<"absy", "RLA", FALSE>>,  \* 38
  <<"absx", "NOP", TRUE>>, <<"absx", "AND", TRUE>>, <<"absx", "ROL", FALSE>>, <<"absx", "RLA", FALSE>>,  \* 3C
  <<"imp", "RTI", FALSE>>, <<"indx", "EOR", FALSE>>, <<"imp", "KIL", FALSE>>, <<"indx", "SRE", FALSE>>,  \* 40
  <<"zp", "NOP", FALSE>>, <<"zp", "EOR", FALSE>>, <<"zp", "LSR", FALSE>>, <<"zp", "SRE", FALSE>>,  \* 44
  <<"imp", "PHA", FALSE>>, <<"imm", "EOR", FALSE>>, <<"imp", "LSR_A", FALSE>>, <<"imm", "ALR", FALSE>>,  \* 48
  <<"abs", "JMP", FALSE>>, <<"abs", "EOR", FALSE>>, <<"abs", "LSR", FALSE>>, <<"abs", "SRE", FALSE>>,  \* 4C
  <<"rel", "BVC", FALSE>>, <<"indy", "EOR", TRUE>>, <<"imp", "KIL", FALSE>>, <<"indy", "SRE", FALSE>>,  \* 50
  <<"zpx", "NOP", FALSE>>, <<"zpx", "EOR", FALSE>>, <<"zpx", "LSR", FALSE>>, <<"zpx", "SRE", FALSE>>,  \* 54
  <<"imp", "CLI", FALSE>>, <<"absy", "EOR", TRUE>>, <<"imp", "NOP", FALSE>>, <<"absy", "SRE", FALSE>>,  \* 58
  <<"absx", "NOP", TRUE>>, <<"absx", "EOR", TRUE>>, <<"absx", "LSR", FALSE>>, <<"absx", "SRE", FALSE>>,  \* 5C
  <<"imp", "RTS", FALSE>>, <<"indx", "ADC", FALSE>>, <<"imp", "KIL", FALSE>>, <<"indx", "RRA", FALSE>>,  \* 60
  <<"zp", "NOP", FALSE>>, <<"zp", "ADC", FALSE>>, <<"zp", "ROR", FALSE>>, <<"zp", "RRA", FALSE>>,  \* 64
  <<"imp", "PLA", FALSE>>, <<"imm", "ADC", FALSE>>, <<"imp", "ROR_A", FALSE>>, <<"imm", "ARR", FALSE>>,  \* 68
  <<"ind", "JMP", FALSE>>, <<"abs", "ADC", FALSE>>, <<"abs", "ROR", FALSE>>, <<"abs", "RRA", FALSE>>,  \* 6C
  <<"rel", "BVS", FALSE>>, <<"indy", "ADC", TRUE>>, <<"imp", "KIL", FALSE>>, <<"indy", "RRA", FALSE>>,  \* 70
  <<"zpx", "NOP", FALSE>>, <<"zpx", "ADC", FALSE>>, <<"zpx", "ROR", FALSE>>, <<"zpx", "RRA", FALSE>>,  \* 74
  <<"imp", "SEI", FALSE>>, <<"absy", "ADC", TRUE>>, <<"imp", "NOP", FALSE>>, <<"absy", "RRA", FALSE>>,  \* 78
  <<"absx", "NOP", TRUE>>, <<"absx", "ADC", TRUE>>, <<"absx", "ROR", FALSE>>, <<"absx", "RRA", FALSE>>,  \* 7C
  <<"imm", "NOP", FALSE>>, <<"indx", "STA", FALSE>>, <<"imm", "NOP", FALSE>>, <<"indx", "SAX", FALSE>>,  \* 80
  <<"zp", "STY", FALSE>>, <<"zp", "STA", FALSE>>, <<"zp", "STX", FALSE>>, <<"zp", "SAX", FALSE>>,  \* 84
  <<"imp", "DEY", FALSE>>, <<"imm", "NOP", FALSE>>, <<"imp", "TXA", FALSE>>, <<"imm", "XAA", FALSE>>,  \* 88
  <<"abs", "STY", FALSE>>, <<"abs", "STA", FALSE>>, <<"abs", "STX", FALSE>>, <<"abs", "SAX", FALSE>>,  \* 8C
  <<"rel", "BCC", FALSE>>, <<"indy", "STA", FALSE>>, <<"imp", "KIL", FALSE>>, <<"imp", "KIL", FALSE>>,  \* 90
  <<"zpx", "STY", FALSE>>, <<"zpx", "STA", FALSE>>, <<"zpy", "STX", FALSE>>, <<"zpy", "SAX", FALSE>>,  \* 94
  <<"imp", "TYA", FALSE>>, <<"absy", "STA", FALSE>>, <<"imp", "TXS", FALSE>>, <<"imp", "KIL", FALSE>>,  \* 98
  <<"absx", "SHY", FALSE>>, <<"absx", "STA", FALSE>>, <<"absy", "SHX", FALSE>>, <<"imp", "KIL", FALSE>>,  \* 9C
  <<"imm", "LDY", FALSE>>, <<"indx", "LDA", FALSE>>, <<"imm", "LDX", FALSE>>, <<"indx", "LAX", FALSE>>,  \* A0
  <<"zp", "LDY", FALSE>>, <<"zp", "LDA", FALSE>>, <<"zp", "LDX", FALSE>>, <<"zp", "LAX", FALSE>>,  \* A4
  <<"imp", "TAY", FALSE>>, <<"imm", "LDA", FALSE>>, <<"imp", "TAX", FALSE>>, <<"imp", "KIL", FALSE>>,  \* A8
  <<"abs", "LDY", FALSE>>, <<"abs", "LDA", FALSE>>, <<"abs", "LDX", FALSE>>, <<"abs", "LAX", FALSE>>,  \* AC
  <<"rel", "BCS", FALSE>>, <<"indy", "LDA", TRUE>>, <<"imp", "KIL", FALSE>>, <<"indy", "LAX", TRUE>>,  \* B0
  <<"zpx", "LDY", FALSE>>, <<"zpx", "LDA", FALSE>>, <<"zpy", "LDX", FALSE>>, <<"zpy", "LAX", FALSE>>,  \* B4
  <<"imp", "CLV", FALSE>>, <<"absy", "LDA", TRUE>>, <<"imp", "TSX", FALSE>>, <<"imp", "KIL", FALSE>>,  \* B8
  <<"absx", "LDY", TRUE>>, <<"absx", "LDA", TRUE>>, <<"absy", "LDX", TRUE>>, <<"absy", "LAX", TRUE>>,  \* BC
  <<"imm", "CPY", FALSE>>, <<"indx", "CMP", FALSE>>, <<"imm", "NOP", FALSE>>, <<"indx", "DCP", FALSE>>,  \* C0
  <<"zp", "CPY", FALSE>>, <<"zp", "CMP", FALSE>>, <<"zp", "DEC", FALSE>>, <<"zp", "DCP", FALSE>>,  \* C4
  <<"imp", "INY", FALSE>>, <<"imm", "CMP", FALSE>>, <<"imp", "DEX", FALSE>>, <<"imm", "AXS", FALSE>>,  \* C8
  <<"abs", "CPY", FALSE>>, <<"abs", "CMP", FALSE>>, <<"abs", "DEC", FALSE>>, <<"abs", "DCP", FALSE>>,  \* CC
  <<"rel", "BNE", FALSE>>, <<"indy", "CMP", TRUE>>, <<"imp", "KIL", FALSE>>, <<"indy", "DCP", FALSE>>,  \* D0
  <<"zpx", "NOP", FALSE>>, <<"zpx", "CMP", FALSE>>, <<"zpx", "DEC", FALSE>>, <<"zpx", "DCP", FALSE>>,  \* D4
  <<"imp", "CLD", FALSE>>, <<"absy", "CMP", TRUE>>, <<"imp", "NOP", FALSE>>, <<"absy", "DCP", FALSE>>,  \* D8
  <<"absx", "NOP", TRUE>>, <<"absx", "CMP", TRUE>>, <<"absx", "DEC", FALSE>>, <<"absx", "DCP", FALSE>>,  \* DC
  <<"imm", "CPX", FALSE>>, <<"indx", "SBC", FALSE>>, <<"imm", "NOP", FALSE>>, <<"indx", "ISC", FALSE>>,  \* E0
  <<"zp", "CPX", FALSE>>, <<"zp", "SBC", FALSE>>, <<"zp", "INC", FALSE>>, <<"zp", "ISC", FALSE>>,  \* E4
  <<"imp", "INX", FALSE>>, <<"imm", "SBC", FALSE>>, <<"imp", "NOP", FALSE>>, <<"imp", "KIL", FALSE>>,  \* E8
  <<"abs", "CPX", FALSE>>, <<"abs", "SBC", FALSE>>, <<"abs", "INC", FALSE>>, <<"abs", "ISC", FALSE>>,  \* EC
  <<"rel", "BEQ", FALSE>>, <<"indy", "SBC", TRUE>>, <<"imp", "KIL", FALSE>>, <<"indy", "ISC", FALSE>>,  \* F0
  <<"zpx", "NOP", FALSE>>, <<"zpx", "SBC", FALSE>>, <<"zpx", "INC", FALSE>>, <<"zpx", "ISC", FALSE>>,  \* F4
  <<"imp", "SED", FALSE>>, <<"absy", "SBC", TRUE>>, <<"imp", "NOP", FALSE>>, <<"absy", "ISC", FALSE>>,  \* F8
  <<"absx", "NOP", TRUE>>, <<"absx", "SBC", TRUE>>, <<"absx", "INC", FALSE>>, <<"absx", "ISC", FALSE>>  \* FC
>>

MOSEMap == <<
  <<"imp", "BRK", FALSE>>, <<"indx", "ORA", FALSE>>, <<"imp", "KIL", FALSE>>, <<"indx", "SLO", FALSE>>,  \* 00
  <<"skip1", "NOP", FALSE>>, <<"zp", "ORA", FALSE>>, <<"zp", "ASL", FALSE>>, <<"zp", "SLO", FALSE>>,  \* 04
  <<"imp", "PHP", FALSE>>, <<"imm", "ORA", FALSE>>, <<"imp", "ASL_A", FALSE>>, <<"imp", "KIL", FALSE>>,  \* 08
  <<"skip2", "NOP", FALSE>>, <<"abs", "ORA", FALSE>>, <<"abs", "ASL", FALSE>>, <<"abs", "SLO", FALSE>>,  \* 0C
  <<"rel", "BPL", FALSE>>, <<"indy", "ORA", FALSE>>, <<"imp", "KIL", FALSE>>, <<"indy", "SLO", FALSE>>,  \* 10
  <<"skip1", "NOP", FALSE>>, <<"zpx", "ORA", FALSE>>, <<"zpx", "ASL", FALSE>>, <<"zpx", "SLO", FALSE>>,  \* 14
  <<"imp", "CLC", FALSE>>, <<"absy", "ORA", FALSE>>, <<"imp", "NOP", FALSE>>, <<"absy", "SLO", FALSE>>,  \* 18
  <<"absx", "NOP", FALSE>>, <<"absx", "ORA", FALSE>>, <<"absx", "ASL", FALSE>>, <<"absx", "SLO", FALSE>>,  \* 1C
  <<"abs", "JSR", FALSE>>, <<"indx", "AND", FALSE>>, <<"imp", "KIL", FALSE>>, <<"indx", "RLA", FALSE>>,  \* 20
  <<"zp", "BIT", FALSE>>, <<"zp", "AND", FALSE>>, <<"zp", "ROL", FALSE>>, <<"zp", "RLA", FALSE>>,  \* 24
  <<"imp", "PLP", FALSE>>, <<"imm", "AND", FALSE>>, <<"imp", "ROL_A", FALSE>>, <<"imp", "KIL", FALSE>>,  \* 28
  <<"abs", "BIT", FALSE>>, <<"abs", "AND", FALSE>>, <<"abs", "ROL", FALSE>>, <<"abs", "RLA", FALSE>>,  \* 2C
  <<"rel", "BMI", FALSE>>, <<"indy", "AND", FALSE>>, <<"imp", "KIL", FALSE>>, <<"indy", "RLA", FALSE>>,  \* 30
  <<"skip1", "NOP", FALSE>>, <<"zpx", "AND", FALSE>>, <<"zpx", "ROL", FALSE>>, <<"zpx", "RLA", FALSE>>,  \* 34
  <<"imp", "SEC", FALSE>>, <<"absy", "AND", FALSE>>, <<"imp", "NOP", FALSE>>, <<"absy", "RLA", FALSE>>,  \* 38
  <<"absx", "NOP", FALSE>>, <<"absx", "AND", FALSE>>, <<"absx", "ROL", FALSE>>, <<"absx", "RLA", FALSE>>,  \* 3C
  <<"imp", "RTI", FALSE>>, <<"indx", "EOR", FALSE>>, <<"imp", "KIL", FALSE>>, <<"indx", "SRE", FALSE>>,  \* 40
  <<"skip1", "NOP", FALSE>>, <<"zp", "EOR", FALSE>>, <<"zp", "LSR", FALSE>>, <<"zp", "SRE", FALSE>>,  \* 44
  <<"imp", "PHA", FALSE>>, <<"imm", "EOR", FALSE>>, <<"imp", "LSR_A", FALSE>>, <<"imp", "KIL", FALSE>>,  \* 48
  <<"abs", "JMP", FALSE>>, <<"abs", "EOR", FALSE>>, <<"abs", "LSR", FALSE>>, <<"abs", "SRE", FALSE>>,  \* 4C
  <<"rel", "BVC", FALSE>>, <<"indy", "EOR", FALSE>>, <<"imp", "KIL", FALSE>>, <<"indy", "SRE", FALSE>>,  \* 50
  <<"skip1", "NOP", FALSE>>, <<"zpx", "EOR", FALSE>>, <<"zpx", "LSR", FALSE>>, <<"zpx", "SRE", FALSE>>,  \* 54
  <<"imp", "CLI", FALSE>>, <<"absy", "EOR", FALSE>>, <<"imp", "NOP", FALSE>>, <<"absy", "SRE", FALSE>>,  \* 58
  <<"absx", "NOP", FALSE>>, <<"absx", "EOR", FALSE>>, <<"absx", "LSR", FALSE>>, <<"absx", "SRE", FALSE>>,  \* 5C
  <<"imp", "RTS", FALSE>>, <<"indx", "ADC", FALSE>>, <<"imp", "KIL", FALSE>>, <<"indx", "RRA", FALSE>>,  \* 60
  <<"skip1", "NOP", FALSE>>, <<"zp", "ADC", FALSE>>, <<"zp", "ROR", FALSE>>, <<"zp", "RRA", FALSE>>,  \* 64
  <<"imp", "PLA", FALSE>>, <<"imm", "ADC", FALSE>>, <<"imp", "ROR_A", FALSE>>, <<"imp", "KIL", FALSE>>,  \* 68
  <<"ind", "JMP", FALSE>>, <<"abs", "ADC", FALSE>>, <<"abs", "ROR", FALSE>>, <<"abs", "RRA", FALSE>>,  \* 6C
  <<"rel", "BVS", FALSE>>, <<"indy", "ADC", FALSE>>, <<"imp", "KIL", FALSE>>, <<"indy", "RRA", FALSE>>,  \* 70
  <<"skip1", "NOP", FALSE>>, <<"zpx", "ADC", FALSE>>, <<"zpx", "ROR", FALSE>>, <<"zpx", "RRA", FALSE>>,  \* 74
  <<"imp", "SEI", FALSE>>, <<"absy", "ADC", FALSE>>, <<"imp", "NOP", FALSE>>, <<"absy", "RRA", FALSE>>,  \* 78
  <<"absx", "NOP", FALSE>>, <<"absx", "ADC", FALSE>>, <<"absx", "ROR", FALSE>>, <<"absx", "RRA", FALSE>>,  \* 7C
  <<"skip1", "NOP", FALSE>>, <<"indx", "STA", FALSE>>, <<"skip1", "NOP", FALSE>>, <<"indx", "SAX", FALSE>>,  \* 80
  <<"zp", "STY", FALSE>>, <<"zp", "STA", FALSE>>, <<"zp", "STX", FALSE>>, <<"zp", "SAX", FALSE>>,  \* 84
  <<"imp", "DEY", FALSE>>, <<"skip1", "NOP", FALSE>>, <<"imp", "TXA", FALSE>>, <<"imp", "KIL", FALSE>>,  \* 88
  <<"abs", "STY", FALSE>>, <<"abs", "STA", FALSE>>, <<"abs", "STX", FALSE>>, <<"abs", "SAX", FALSE>>,  \* 8C
  <<"rel", "BCC", FALSE>>, <<"indy", "STA", FALSE>>, <<"imp", "KIL", FALSE>>, <<"imp", "KIL", FALSE>>,  \* 90
  <<"zpx", "STY", FALSE>>, <<"zpx", "STA", FALSE>>, <<"zpy", "STX", FALSE>>, <<"zpy", "SAX", FALSE>>,  \* 94
  <<"imp", "TYA", FALSE>>, <<"absy", "STA", FALSE>>, <<"imp", "TXS", FALSE>>, <<"imp", "KIL", FALSE>>,  \* 98
  <<"imp", "KIL", FALSE>>, <<"absx", "STA", FALSE>>, <<"imp", "KIL", FALSE>>, <<"imp", "KIL", FALSE>>,  \* 9C
  <<"imm", "LDY", FALSE>>, <<"indx", "LDA", FALSE>>, <<"imm", "LDX", FALSE>>, <<"indx", "LAX", FALSE>>,  \* A0
  <<"zp", "LDY", FALSE>>, <<"zp", "LDA", FALSE>>, <<"zp", "LDX", FALSE>>, <<"zp", "LAX", FALSE>>,  \* A4
  <<"imp", "TAY", FALSE>>, <<"imm", "LDA", FALSE>>, <<"imp", "TAX", FALSE>>, <<"imp", "KIL", FALSE>>,  \* A8
  <<"abs", "LDY", FALSE>>, <<"abs", "LDA", FALSE>>, <<"abs", "LDX", FALSE>>, <<"abs", "LAX", FALSE>>,  \* AC
  <<"rel", "BCS", FALSE>>, <<"indy", "LDA", FALSE>>, <<"imp", "KIL", FALSE>>, <<"indy", "LAX", FALSE>>,  \* B0
  <<"zpx", "LDY", FALSE>>, <<"zpx", "LDA", FALSE>>, <<"zpy", "LDX", FALSE>>, <<"zpy", "LAX", FALSE>>,  \* B4
  <<"imp", "CLV", FALSE>>, <<"absy", "LDA", FALSE>>, <<"imp", "TSX", FALSE>>, <<"imp", "KIL", FALSE>>,  \* B8
  <<"absx", "LDY", FALSE>>, <<"absx", "LDA", FALSE>>, <<"absy", "LDX", FALSE>>, <<"absy", "LAX", FALSE>>,  \* BC
  <<"imm", "CPY", FALSE>>, <<"indx", "CMP", FALSE>>, <<"skip1", "NOP", FALSE>>, <<"indx", "DCP", FALSE>>,  \* C0
  <<"zp", "CPY", FALSE>>, <<"zp", "CMP", FALSE>>, <<"zp", "DEC", FALSE>>, <<"zp", "DCP", FALSE>>,  \* C4
  <<"imp", "INY", FALSE>>, <<"imm", "CMP", FALSE>>, <<"imp", "DEX", FALSE>>, <<"imp", "KIL", FALSE>>,  \* C8
  <<"abs", "CPY", FALSE>>, <<"abs", "CMP", FALSE>>, <<"abs", "DEC", FALSE>>, <<"abs", "DCP", FALSE>>,  \* CC
  <<"rel", "BNE", FALSE>>, <<"indy", "CMP", FALSE>>, <<"imp", "KIL", FALSE>>, <<"indy", "DCP", FALSE>>,  \* D0
  <<"skip1", "NOP", FALSE>>, <<"zpx", "CMP", FALSE>>, <<"zpx", "DEC", FALSE>>, <<"zpx", "DCP", FALSE>>,  \* D4
  <<"imp", "CLD", FALSE>>, <<"absy", "CMP", FALSE>>, <<"imp", "NOP", FALSE>>, <<"absy", "DCP", FALSE>>,  \* D8
  <<"absx", "NOP", FALSE>>, <<"absx", "CMP", FALSE>>, <<"absx", "DEC", FALSE>>, <<"absx", "DCP", FALSE>>,  \* DC
  <<"imm", "CPX", FALSE>>, <<"indx", "SBC", FALSE>>, <<"skip1", "NOP", FALSE>>, <<"indx", "ISC", FALSE>>,  \* E0
  <<"zp", "CPX", FALSE>>, <<"zp", "SBC", FALSE>>, <<"zp", "INC", FALSE>>, <<"zp", "ISC", FALSE>>,  \* E4
  <<"imp", "INX", FALSE>>, <<"imm", "SBC", FALSE>>, <<"imp", "NOP", FALSE>>, <<"imp", "KIL", FALSE>>,  \* E8
  <<"abs", "CPX", FALSE>>, <<"abs", "SBC", FALSE>>, <<"abs", "INC", FALSE>>, <<"abs", "ISC", FALSE>>,  \* EC
  <<"rel", "BEQ", FALSE>>, <<"indy", "SBC", FALSE>>, <<"imp", "KIL", FALSE>>, <<"indy", "ISC", FALSE>>,  \* F0
  <<"skip1", "NOP", FALSE>>, <<"zpx", "SBC", FALSE>>, <<"zpx", "INC", FALSE>>, <<"zpx", "ISC", FALSE>>,  \* F4
  <<"imp", "SED", FALSE>>, <<"absy", "SBC", FALSE>>, <<"imp", "NOP", FALSE>>, <<"absy", "ISC", FALSE>>,  \* F8
  <<"absx", "NOP", FALSE>>, <<"absx", "SBC", FALSE>>, <<"absx", "INC", FALSE>>, <<"absx", "ISC", FALSE>>  \* FC
>>

instructionMap(c) == IF c.cls = "MOSE" THEN MOSEMap ELSE moseMap

\* a penalty set that also holds the indexed stores 0x9D, 0x99, 0x91
needsPageCrossPenalty_stores(op) ==
  op \in {29, 25, 57, 61, 89, 93, 121, 125, 177, 185, 189, 190, 188, 209, 217, 221, 241, 249, 253, 28, 60, 92, 124, 220, 252, 191, 179, 27, 59, 91, 123, 219, 251, 223, 255, 156, 158, 157, 153, 145}

\* MOSE only: the opcodes that take the page-cross cycle after dispatch
needsPageCrossPenalty(op) ==
  op \in {29, 25, 57, 61, 89, 93, 121, 125, 177, 185, 189, 190, 188, 209, 217, 221, 241, 249, 253, 28, 60, 92, 124, 220, 252, 191, 179, 27, 59, 91, 123, 219, 251, 223, 255, 156, 158}

exec(c, mn, m) ==
  CASE mn = "LDA" -> LDA(c, m.value)     [] mn = "STA" -> STA(c, m.address)
    [] mn = "LDX" -> LDX(c, m.value)     [] mn = "STX" -> STX(c, m.address)
    [] mn = "LDY" -> LDY(c, m.value)     [] mn = "STY" -> STY(c, m.address)
    [] mn = "ADC" -> ADC(c, m.value)     [] mn = "SBC" -> SBC(c, m.value)
    [] mn = "AND" -> AND(c, m.value)     [] mn = "ORA" -> ORA(c, m.value)
    [] mn = "EOR" -> EOR(c, m.value)     [] mn = "CMP" -> CMP(c, m.value)
    [] mn = "CPX" -> CPX(c, m.value)     [] mn = "CPY" -> CPY(c, m.value)
    [] mn = "BIT" -> BIT(c, m.value)     [] mn = "NOP" -> NOP(c)
    [] mn = "INC" -> INC(c, m.address)   [] mn = "DEC" -> DEC(c, m.address)
    [] mn = "ASL" -> ASL(c, m.address)   [] mn = "LSR" -> LSR(c, m.address)
    [] mn = "ROL" -> ROL(c, m.address)   [] mn = "ROR" -> ROR(c, m.address)
    [] mn = "ASL_A" -> ASL_A(c)          [] mn = "LSR_A" -> LSR_A(c)
    [] mn = "ROL_A" -> ROL_A(c)          [] mn = "ROR_A" -> ROR_A(c)
    [] mn = "BCC" -> BCC(c, m.address)   [] mn = "BCS" -> BCS(c, m.address)
    [] mn = "BEQ" -> BEQ(c, m.address)   [] mn = "BNE" -> BNE(c, m.address)
    [] mn = "BPL" -> BPL(c, m.address)   [] mn = "BMI" -> BMI(c, m.address)
    [] mn = "BVC" -> BVC(c, m.address)   [] mn = "BVS" -> BVS(c, m.address)
    [] mn = "JMP" -> JMP(c, m.address)   [] mn = "JSR" -> JSR(c, m.address)
    [] mn = "RTS" -> RTS(c)              [] mn = "RTI" -> RTI(c)
    [] mn = "BRK" -> BRK(c)
    [] mn = "TAX" -> TAX(c)              [] mn = "TXA" -> TXA(c)
    [] mn = "TAY" -> TAY(c)              [] mn = "TYA" -> TYA(c)
    [] mn = "TSX" -> TSX(c)              [] mn = "TXS" -> TXS(c)
    [] mn = "PHA" -> PHA(c)              [] mn = "PLA" -> PLA(c)
    [] mn = "PHP" -> PHP(c)              [] mn = "PLP" -> PLP(c)
    [] mn = "INX" -> INX(c)              [] mn = "DEX" -> DEX(c)
    [] mn = "INY" -> INY(c)              [] mn = "DEY" -> DEY(c)
    [] mn = "CLC" -> CLC(c)              [] mn = "SEC" -> SEC(c)
    [] mn = "CLI" -> CLI(c)              [] mn = "SEI" -> SEI(c)
    [] mn = "CLV" -> CLV(c)              [] mn = "CLD" -> CLD(c)
    [] mn = "SED" -> SED(c)
    [] mn = "LAX" -> LAX(c, m.value)     [] mn = "SAX" -> SAX(c, m.address)
    [] mn = "DCP" -> DCP(c, m.address)   [] mn = "ISC" -> ISC(c, m.address)
    [] mn = "SLO" -> SLO(c, m.address)   [] mn = "RLA" -> RLA(c, m.address)
    [] mn = "SRE" -> SRE(c, m.address)   [] mn = "RRA" -> RRA(c, m.address)
    [] mn = "ANC" -> ANC(c, m.value)     [] mn = "ALR" -> ALR(c, m.value)
    [] mn = "ARR" -> ARR(c, m.value)     [] mn = "XAA" -> XAA(c, m.value)
    [] mn = "AXS" -> AXS(c, m.value)
    [] mn = "SHY" -> SHY(c, m.address)   [] mn = "SHX" -> SHX(c, m.address)
    [] mn = "KIL" -> KIL(c)

\* one handler of the instruction map: resolve the operand, add the handler's
\* own page-cross cycle (mose), run the operation
ownPenalty(m, own) ==
  IF own /\ m.pageCrossed THEN [m.cpu EXCEPT !.cycles = m.cpu.cycles + 1] ELSE m.cpu

instr(c, entry) ==
  LET m == resolve(c, entry[1]) IN exec(ownPenalty(m, entry[3]), entry[2], m)

----------------------------------------------------------------------------
(* Construction, interrupts, step, runCycles, reset.                       *)

\* new mose(ramSizeKB) / new MOSE(memorySize): len is the array's length
construct(cls, len) ==
  [cls |-> cls, len |-> len, ram |-> <<>>,
   A |-> 0, X |-> 0, Y |-> 0, PC |-> 0, S |-> 255,
   C |-> 0, Z |-> 0, I |-> 0, D |-> 0, B |-> 0, V |-> 0, N |-> 0,
   opcode |-> 0, cycles |-> 0, totalCycles |-> 0,
   pageCrossed |-> FALSE,
   emulateIndirectJMPBug |-> TRUE,
   breakFlag |-> FALSE, nmiPending |-> FALSE, nmiEdge |-> FALSE]

triggerNMI(c) == [c EXCEPT !.nmiEdge = TRUE]

triggerBreak(c) == [c EXCEPT !.breakFlag = TRUE]

\* the NMI entry sequence, taken when the edge latch is set
nmiEntry_keepCycles(c) ==
  LET c0 == [c EXCEPT !.nmiEdge = FALSE, !.nmiPending = FALSE]
      c1 == push(c0, (c0.PC \div 256) % 256)
      c2 == push(c1, c0.PC % 256)
      c3 == push(c2, BitAnd(getStatus(c2), 239))
      c4 == [c3 EXCEPT !.I = 1]
      lo == read(c4, 65530)
      hi == read(c4, 65531)
  IN [c4 EXCEPT !.PC = BitOr(hi * 256, lo) % 65536,
                !.totalCycles = c4.totalCycles + 7]

nmiEntry(c) ==
  LET c0 == [c EXCEPT !.nmiEdge = FALSE, !.nmiPending = FALSE]
      c1 == push(c0, (c0.PC \div 256) % 256)
      c2 == push(c1, c0.PC % 256)
      c3 == push(c2, BitAnd(getStatus(c2), 239))
      c4 == [c3 EXCEPT !.I = 1]
      lo == read(c4, 65530)
      hi == read(c4, 65531)
  IN [c4 EXCEPT !.PC = BitOr(hi * 256, lo) % 65536,
                !.cycles = 7,
                !.totalCycles = c4.totalCycles + 7]

\* handleNMI(): (instance after, whether an NMI was serviced)
handleNMI(c) ==
  IF c.nmiEdge THEN [cpu |-> nmiEntry(c), value |-> TRUE]
  ELSE [cpu |-> c, value |-> FALSE]

\* this.opcode = this.read(this.PC++); this.pageCrossed = false;
\* this.cycles = this.cycleTable[this.opcode] || 2
fetch(c) ==
  LET opcode == read(c, c.PC)
  IN [c EXCEPT !.opcode = opcode, !.PC = c.PC + 1,
               !.pageCrossed = FALSE,
               !.cycles = IF cycleTable[opcode + 1] # 0
                          THEN cycleTable[opcode + 1] ELSE 2]

\* this.instructionMap[this.opcode]()
dispatch(c) == instr(c, instructionMap(c)[(c.opcode % 256) + 1])

\* MOSE: if (this.pageCrossed && this.needsPageCrossPenalty(this.opcode)) this.cycles++
centralPenalty(c) ==
  IF c.cls = "MOSE" /\ c.pageCrossed /\ needsPageCrossPenalty(c.opcode)
  THEN [c EXCEPT !.cycles = c.cycles + 1] ELSE c

\* this.totalCycles += this.cycles
account(c) == [c EXCEPT !.totalCycles = c.totalCycles + c.cycles]

\* fetch, dispatch and account one opcode (the tail of step())
fetchExecute(c) == account(centralPenalty(dispatch(fetch(c))))

\* return this.cycles
returnCycles(c) == [cpu |-> c, value |-> c.cycles]

\* which of its three paths step() takes (MOSE has only the last)
stepKind(c) ==
  IF c.cls = "mose" /\ c.breakFlag THEN "break"
  ELSE IF c.cls = "mose" /\ c.nmiEdge THEN "nmi"
  ELSE "opcode"

\* step(): (instance after, returned value)
step_nmiFirst(c) ==
  IF c.cls = "mose" /\ handleNMI(c).value
  THEN returnCycles(handleNMI(c).cpu)
  ELSE IF c.cls = "mose" /\ c.breakFlag
  THEN [cpu |-> [c EXCEPT !.breakFlag = FALSE], value |-> c.cycles]
  ELSE returnCycles(fetchExecute(c))

step_breakFlagKept(c) ==
  IF c.cls = "mose" /\ c.breakFlag
  THEN [cpu |-> c, value |-> c.cycles]
  ELSE IF c.cls = "mose" /\ handleNMI(c).value
  THEN returnCycles(handleNMI(c).cpu)
  ELSE returnCycles(fetchExecute(c))

step(c) ==
  IF c.cls = "mose" /\ c.breakFlag
  THEN [cpu |-> [c EXCEPT !.breakFlag = FALSE], value |-> c.cycles]
  ELSE IF c.cls = "mose" /\ handleNMI(c).value
  THEN returnCycles(handleNMI(c).cpu)
  ELSE returnCycles(fetchExecute(c))

\* the loop of runCycles: n steps so far, `before` the totalCycles seen
\* before the latest step (-1: no step yet)
\* a loop that tests totalCycles <= goal
RECURSIVE runLoop(_, _, _, _, _)
runLoop_late(c, start, goal, n, before) ==
  IF c.totalCycles <= goal
  THEN runLoop(step(c).cpu, start, goal, n + 1, c.totalCycles)
  ELSE [cpu |-> c, value |-> c.totalCycles - start, steps |-> n, before |-> before]

runLoop(c, start, goal, n, before) ==
  IF c.totalCycles < goal
  THEN runLoop(step(c).cpu, start, goal, n + 1, c.totalCycles)
  ELSE [cpu |-> c, value |-> c.totalCycles - start, steps |-> n, before |-> before]

\* runCycles(target): (instance after, returned value, steps, before)
runCycles(c, target) == runLoop(c, c.totalCycles, c.totalCycles + target, 0, -1)

\* a reset that restarts the cycle count: totalCycles = 7
reset_restart(c) ==
  LET c1 == [c EXCEPT !.A = 0, !.X = 0, !.Y = 0, !.S = 255,
                      !.C = 0, !.Z = 0, !.D = 0, !.V = 0, !.N = 0,
                      !.I = 1, !.B = 0]
      lo == read(c1, 65532)
      hi == read(c1, 65533)
      c2 == [c1 EXCEPT !.PC = BitOr(hi * 256, lo) % 65536,
                       !.cycles = 7,
                       !.totalCycles = 7]
  IN IF c.cls = "mose"
     THEN [c2 EXCEPT !.breakFlag = FALSE, !.nmiPending = FALSE, !.nmiEdge = FALSE]
     ELSE c2

reset_keepFlags(c) ==
  LET c1 == [c EXCEPT !.A = 0, !.X = 0, !.Y = 0, !.S = 255, !.I = 1]
      lo == read(c1, 65532)
      hi == read(c1, 65533)
      c2 == [c1 EXCEPT !.PC = BitOr(hi * 256, lo) % 65536,
                       !.cycles = 7,
                       !.totalCycles = c1.totalCycles + 7]
  IN IF c.cls = "mose"
     THEN [c2 EXCEPT !.breakFlag = FALSE, !.nmiPending = FALSE, !.nmiEdge = FALSE]
     ELSE c2

reset_keepRequests(c) ==
  LET c1 == [c EXCEPT !.A = 0, !.X = 0, !.Y = 0, !.S = 255,
                      !.C = 0, !.Z = 0, !.D = 0, !.V = 0, !.N = 0,
                      !.I = 1, !.B = 0]
      lo == read(c1, 65532)
      hi == read(c1, 65533)
  IN [c1 EXCEPT !.PC = BitOr(hi * 256, lo) % 65536,
                !.cycles = 7,
                !.totalCycles = c1.totalCycles + 7]

reset(c) ==
  LET c1 == [c EXCEPT !.A = 0, !.X = 0, !.Y = 0, !.S = 255,
                      !.C = 0, !.Z = 0, !.D = 0, !.V = 0, !.N = 0,
                      !.I = 1, !.B = 0]
      lo == read(c1, 65532)
      hi == read(c1, 65533)
      c2 == [c1 EXCEPT !.PC = BitOr(hi * 256, lo) % 65536,
                       !.cycles = 7,
                       !.totalCycles = c1.totalCycles + 7]
  IN IF c.cls = "mose"
     THEN [c2 EXCEPT !.breakFlag = FALSE, !.nmiPending = FALSE, !.nmiEdge = FALSE]
     ELSE c2

----------------------------------------------------------------------------
(* The host.  It builds an instance, writes a program and data with        *)
(* write(), sets registers directly (cpu.PC = 0x0600), the flags through   *)
(* setStatus(), and then calls step(), runCycles(), reset(), triggerNMI()  *)
(* and triggerBreak() in any order.                                        *)

MaxCalls == 4         \* calls the host makes after loading a program
MaxInstrSteps == 2    \* steps the host makes after loading one instruction

\* the bytes of a program placed from address org on: <<address, byte>> pairs
place(org, bytes) == [i \in 1 .. Len(bytes) |-> <<org + i - 1, bytes[i]>>]

RECURSIVE writeAll(_, _)
writeAll(c, ws) ==
  IF ws = <<>> THEN c
  ELSE writeAll(write(c, ws[1][1], ws[1][2]), Tail(ws))

\* what the host sets up: memory writes, then registers and flags
setup(c, s) ==
  LET c1 == writeAll(c, s.img)
      c2 == [c1 EXCEPT !.PC = s.PC, !.A = s.A, !.X = s.X, !.Y = s.Y, !.S = s.S]
  IN setStatus(c2, s.P)

Scenario(img, pc, a, x, y, sp, p) ==
  [img |-> img, PC |-> pc, A |-> a, X |-> x, Y |-> y, S |-> sp, P |-> p]

\* NMI vector -> 0x8000, reset vector -> 0x0600, IRQ/BRK vector -> 0x9000
Vectors ==
  <<<<65530, 0>>, <<65531, 128>>, <<65532, 0>>, <<65533, 6>>,
    <<65534, 0>>, <<65535, 144>>>>

\* the handler of the README's NMI example: LDA #$FF; STA $0200; RTI
NmiHandler == place(32768, <<169, 255, 141, 0, 2, 64>>)

\* programs at 0x0600
Programs ==
  { <<169, 5, 105, 3, 141, 0, 2, 0>>,    \* LDA #5; ADC #3; STA $0200; BRK
    <<169, 0, 141, 0, 2, 234, 234, 0>>,  \* LDA #0; STA $0200; NOP; NOP; BRK
    <<2>>,                               \* a jam opcode
    <<208, 254>>,                        \* BNE *-0 (a loop while Z = 0)
    <<189, 255, 2, 157, 255, 2>> }       \* LDA $02FF,X; STA $02FF,X

ProgramScenarios ==
  { Scenario(NmiHandler \o v \o place(1536, prog), 1536, 0, x, 0, sp, p) :
      prog \in Programs, v \in {<<>>, Vectors}, x \in {1}, sp \in {255, 1},
      p \in {0, 4} }
  \cup
  \* BRK or NOP at 0x0600, and both interrupt handlers a lone RTI
  { Scenario(Vectors \o <<<<32768, 64>>, <<36864, 64>>, <<1536, op>>>>,
             1536, 0, 1, 0, sp, p) :
      op \in {0, 234}, sp \in {255, 1}, p \in {0, 211, 9} }
  \cup
  \* one-byte programs whose byte is the last of the address space; the NMI
  \* handler is a lone RTI
  { Scenario(Vectors \o <<<<32768, 64>>, <<65535, op>>>>, 65535, 0, 0, 0, 255, 0) :
      op \in {234, 2} }

Targets == {-1, 0, 3, 8}

\* the record of a call.  trig counts the triggerNMI() calls made since the
\* last NMI entry or reset (trig0: the count when the call was made) and
\* entries the NMI entries so far; both are history only, the code keeps the
\* single bit nmiEdge.  val is the argument of a write(), push() or setStatus()
\* call, addr the address given to read() or write() and the stack address a
\* push() stored at, and prev the call before it: <<op, addr, val>>.  For a
\* step(), back tells what the call before it was (the kind of a step, else
\* the call's name) and the S, PC and status byte that call started from.
NoCall == [op |-> "new", kind |-> "-", target |-> 0, steps |-> 0,
           before |-> -1, trig0 |-> 0, trig |-> 0, entries |-> 0,
           addr |-> 0, val |-> 0, prev |-> <<"new", 0, 0>>,
           back |-> <<"new", 0, 0, 0, "-">>]

Init ==
  /\ cpu \in {construct(cls, 65536) : cls \in {"mose", "MOSE"}}
  /\ pre = cpu
  /\ last = NoCall
  /\ ret = -1
  /\ budget = MaxCalls

Load ==
  /\ last.op = "new"
  /\ \E s \in ProgramScenarios :
       /\ cpu' = setup(cpu, s)
       /\ pre' = cpu
       /\ last' = [NoCall EXCEPT !.op = "load"]
       /\ ret' = -1
       /\ budget' = MaxCalls

\* cpu.step()
Step ==
  /\ budget > 0
  /\ \E r \in {step(cpu)}, k \in {stepKind(cpu)} :
        /\ cpu' = r.cpu
        /\ ret' = r.value
        /\ last' = [NoCall EXCEPT
                    !.op = "step", !.kind = k, !.steps = 1,
                    !.before = cpu.totalCycles, !.trig0 = last.trig,
                    !.back = <<IF last.op = "step" THEN last.kind ELSE last.op,
                               pre.S, pre.PC, getStatus(pre), last.kind>>,
                    !.trig = IF k = "nmi" THEN 0 ELSE last.trig,
                    !.entries = last.entries + (IF k = "nmi" THEN 1 ELSE 0)]
  /\ pre' = cpu
  /\ budget' = budget - 1

RunCycles ==
  /\ budget > 0
  /\ \E target \in Targets :
       \E r \in {runCycles(cpu, target)} :
          /\ cpu' = r.cpu
          /\ ret' = r.value
          /\ last' = [NoCall EXCEPT
                      !.op = "runCycles", !.target = target,
                      !.steps = r.steps, !.before = r.before,
                      !.trig0 = last.trig,
                      !.trig = IF cpu.nmiEdge /\ ~r.cpu.nmiEdge
                               THEN 0 ELSE last.trig,
                      !.entries = last.entries +
                                  (IF cpu.nmiEdge /\ ~r.cpu.nmiEdge THEN 1 ELSE 0)]
  /\ pre' = cpu
  /\ budget' = budget - 1

Reset ==
  /\ budget > 0
  /\ cpu' = reset(cpu)
  /\ pre' = cpu
  /\ last' = [NoCall EXCEPT !.op = "reset", !.trig0 = last.trig, !.trig = 0,
                            !.kind = IF cpu.cls = "mose" /\ cpu.nmiEdge /\ cpu.breakFlag
                                     THEN "nmi+break"
                                     ELSE IF cpu.cls = "mose" /\ cpu.nmiEdge THEN "nmi"
                                     ELSE IF cpu.cls = "mose" /\ cpu.breakFlag THEN "break"
                                     ELSE "-",
                            !.entries = last.entries]
  /\ ret' = -1
  /\ budget' = budget - 1

\* MOSE has no triggerNMI and no triggerBreak
TriggerNMI ==
  /\ budget > 0
  /\ cpu.cls = "mose"
  /\ cpu' = triggerNMI(cpu)
  /\ pre' = cpu
  /\ last' = [NoCall EXCEPT !.op = "triggerNMI", !.trig0 = last.trig,
                            !.trig = last.trig + 1, !.entries = last.entries]
  /\ ret' = -1
  /\ budget' = budget - 1

TriggerBreak ==
  /\ budget > 0
  /\ cpu.cls = "mose"
  /\ cpu' = triggerBreak(cpu)
  /\ pre' = cpu
  /\ last' = [NoCall EXCEPT !.op = "triggerBreak", !.trig0 = last.trig,
                            !.trig = last.trig, !.entries = last.entries]
  /\ ret' = -1
  /\ budget' = budget - 1

Next == Load \/ Step \/ RunCycles \/ Reset \/ TriggerNMI \/ TriggerBreak

Spec == Init /\ [][Next]_vars

----------------------------------------------------------------------------
(* One instruction at a time: the host writes a data image and one opcode  *)
(* with its operand bytes, sets the registers and flags, and steps.        *)

\* zero-page pointers, operands in pages 2 and 3, a stack page, the vectors
DataImage ==
  <<<<0, 3>>, <<1, 2>>, <<16, 255>>, <<17, 2>>, <<18, 3>>, <<255, 128>>,
    <<256, 255>>, <<257, 255>>, <<258, 32>>, <<510, 52>>, <<511, 18>>,
    <<512, 18>>, <<528, 1>>, <<529, 128>>, <<767, 127>>, <<768, 153>>,
    <<770, 16>>, <<896, 10>>, <<897, 255>>>> \o Vectors

\* operand bytes: $02FF (indexing crosses the page), $0210, $0010, $0380 (as
\* a branch offset, -128: into the page before)
InstrOperands == {<<255, 2>>, <<16, 2>>, <<16, 0>>, <<128, 3>>}

\* <<A, X, Y, S>>
InstrRegs == {<<0, 0, 0, 255>>, <<128, 1, 1, 0>>, <<255, 255, 1, 1>>, <<9, 1, 0, 253>>}

\* status bytes: all clear; N V Z C; D and C
InstrFlags == {0, 211, 9}

\* every opcode at 0x0600 with each operand, register file and status byte,
\* and every opcode in the last byte of the address space (its operand bytes
\* are then the bytes at 0x0000 and 0x0001)
InstrScenarios ==
  { Scenario(DataImage \o place(1536, <<op>> \o b), 1536, r[1], r[2], r[3], r[4], p) :
      op \in Byte, b \in InstrOperands, r \in InstrRegs, p \in InstrFlags }
  \cup
  { Scenario(DataImage \o <<<<65535, op>>>>, 65535, 128, 1, 1, 0, p) :
      op \in Byte, p \in {0, 211} }
  \cup
  \* LDA #b at the Quick Start's 0x0600, at the end of a page and at the end
  \* of the address space (from 0xFFFF the operand byte is the one at 0x0000)
  { Scenario(DataImage \o place(org, <<169, b>>), org, 7, 0, 0, 255, p) :
      org \in {1536, 1791, 65534, 65535}, b \in {0, 66, 200}, p \in {0, 130} }
  \cup
  \* JSR to a subroutine that is a lone RTS, for stack pointers at both ends
  \* of the stack page and callers that end at or run over 0xFFFF
  { Scenario(DataImage \o place(t, <<96>>) \o place(org, <<32, t % 256, t \div 256>>),
             org, 0, 0, 0, sp, 0) :
      org \in {1536, 253, 65533, 65534, 65535}, t \in {768, 36864},
      sp \in {255, 128, 1, 0} }
  \cup
  \* PHP; PLP for flag bytes with B clear and set
  { Scenario(DataImage \o place(org, <<8, 40>>), org, 0, 0, 0, sp, p) :
      org \in {1536, 65535}, sp \in {255, 1, 0}, p \in {0, 16, 85, 138, 207, 223} }

InitOps ==
  /\ cpu \in {construct(cls, 65536) : cls \in {"mose", "MOSE"}}
  /\ pre = cpu
  /\ last = NoCall
  /\ ret = -1
  /\ budget = MaxInstrSteps

LoadInstr ==
  /\ last.op = "new"
  /\ \E s \in InstrScenarios :
       /\ cpu' = setup(cpu, s)
       /\ pre' = cpu
       /\ last' = [NoCall EXCEPT !.op = "load"]
       /\ ret' = -1
       /\ budget' = MaxInstrSteps

\* the host of a mose instance sets cpu.emulateIndirectJMPBug before it runs
\* JMP ($02FF), JMP ($0210) or JMP ($FFFF)
LoadJmp ==
  /\ last.op = "new"
  /\ cpu.cls = "mose"
  /\ \E b \in {<<255, 2>>, <<16, 2>>, <<255, 255>>}, bug \in BOOLEAN :
       cpu' = [setup(cpu, Scenario(DataImage \o place(1536, <<108>> \o b),
                                   1536, 0, 0, 0, 255, 0))
                 EXCEPT !.emulateIndirectJMPBug = bug]
  /\ pre' = cpu
  /\ last' = [NoCall EXCEPT !.op = "load"]
  /\ ret' = -1
  /\ budget' = MaxInstrSteps

NextOps == LoadInstr \/ LoadJmp \/ Step \/ Reset \/ TriggerNMI \/ TriggerBreak

SpecOps == InitOps /\ [][NextOps]_vars

----------------------------------------------------------------------------
(* The README's two examples, as written: the host builds an instance,     *)
(* writes the program and the vectors with write(), and then calls         *)
(* reset(), step(), triggerNMI() and the loop                              *)
(*     while (cpu.opcode !== 0x00) { cpu.step(); }                         *)

MaxReadmeCalls == 5   \* calls the host makes after writing the program
MaxLoopSteps == 8     \* steps the loop is followed for

\* the loop, followed for at most n steps
RECURSIVE runUntilBrk(_, _)
runUntilBrk(c, n) ==
  IF c.opcode # 0 /\ n > 0 THEN runUntilBrk(step(c).cpu, n - 1) ELSE c

\* "Running a Simple Program" (on either class) and "Handling NMI"
InitReadme ==
  /\ cpu \in {writeAll(construct(cls, 65536),
                        place(1536, <<169, 5, 105, 3, 141, 0, 2, 0>>)
                          \o <<<<65532, 0>>, <<65533, 6>>>>) :
                 cls \in {"mose", "MOSE"}}
             \cup
             {writeAll(construct("mose", 65536),
                       NmiHandler \o <<<<65530, 0>>, <<65531, 128>>>>
                         \o place(1536, <<169, 0, 141, 0, 2, 234, 234, 0>>)
                         \o <<<<65532, 0>>, <<65533, 6>>>>)}
  /\ pre = cpu
  /\ last = [NoCall EXCEPT !.op = "load"]
  /\ ret = -1
  /\ budget = MaxReadmeCalls

\* the loop as one call; it returns when it finds opcode = 0x00
RunUntilBrk ==
  /\ budget > 0
  /\ \E r \in {runUntilBrk(cpu, MaxLoopSteps)} :
       /\ r.opcode = 0
       /\ cpu' = r
       /\ last' = [NoCall EXCEPT
                    !.op = "untilBrk", !.before = cpu.totalCycles,
                    !.prev = <<last.op, 0, 0>>,
                    !.trig0 = last.trig, !.entries = last.entries,
                    !.trig = IF cpu.nmiEdge /\ ~r.nmiEdge THEN 0 ELSE last.trig]
  /\ pre' = cpu
  /\ ret' = -1
  /\ budget' = budget - 1

SpecReadme == InitReadme /\ [][Reset \/ Step \/ TriggerNMI \/ RunUntilBrk]_vars

----------------------------------------------------------------------------
(* Arithmetic, compare and BIT over many operand pairs: the host writes    *)
(* one instruction at 0x0600 and its operand, sets a register and the      *)
(* flags, and steps.                                                       *)

MaxAluSteps == 1      \* steps the host makes after loading the instruction

\* every packed-BCD byte (both nibbles 0..9) and bytes with a nibble above 9
AluBytes ==
  {16 * h + l : h \in 0..9, l \in 0..9}
    \cup {10, 15, 90, 127, 160, 170, 191, 207, 240, 250, 254, 255}

\* ADC #v and SBC #v with C and D clear or set; CMP #v, CPX #v, CPY #v and
\* BIT $10 (the byte at 0x0010 is v) with the flags all clear or all set.
\* The register the instruction reads holds a; the other two differ from it.
InitAlu ==
  /\ \E cls \in {"mose", "MOSE"}, a \in AluBytes, v \in AluBytes,
        i \in {<<105, 0>>, <<105, 1>>, <<105, 8>>, <<105, 9>>,
               <<233, 0>>, <<233, 1>>, <<233, 8>>, <<233, 9>>,
               <<201, 0>>, <<201, 223>>, <<224, 0>>, <<224, 223>>,
               <<192, 0>>, <<192, 223>>, <<36, 0>>, <<36, 223>>} :
       cpu = setup(construct(cls, 65536),
                   Scenario(<<<<16, v>>>> \o
                              place(1536, <<i[1], IF i[1] = 36 THEN 16 ELSE v>>),
                            1536,
                            IF i[1] \in {224, 192} THEN (a + 85) % 256 ELSE a,
                            IF i[1] = 224 THEN a ELSE (a + 170) % 256,
                            IF i[1] = 192 THEN a ELSE (a + 171) % 256,
                            255, i[2]))
  /\ pre = cpu
  /\ last = [NoCall EXCEPT !.op = "load"]
  /\ ret = -1
  /\ budget = MaxAluSteps

SpecAlu == InitAlu /\ [][Step]_vars

----------------------------------------------------------------------------
(* The methods a host calls directly: read, write, push, pop, getStatus    *)
(* and setStatus, on an instance of every memory configuration.            *)

MaxApiCalls == 2      \* direct calls the host makes on a new instance

\* new mose(ramSizeKB) for every size of ramSizeMap, new MOSE() and
\* new MOSE(0x1000)
InitApi ==
  /\ cpu \in {construct("mose", ramSizeMap(k)) : k \in {4, 8, 16, 32, 48, 64}}
             \cup {construct("MOSE", n) : n \in {65536, 4096}}
  /\ pre = cpu
  /\ last = NoCall
  /\ ret = -1
  /\ budget = MaxApiCalls

\* cpu.setStatus(b), the first call on the instance, for every byte b
SetStatus ==
  /\ budget > 0
  /\ last.op = "new"
  /\ \E b \in Byte :
       /\ cpu' = setStatus(cpu, b)
       /\ last' = [NoCall EXCEPT !.op = "setStatus", !.val = b]
  /\ pre' = cpu
  /\ ret' = -1
  /\ budget' = budget - 1

\* cpu.getStatus()
GetStatus ==
  /\ budget > 0
  /\ ret' = getStatus(cpu)
  /\ cpu' = cpu
  /\ pre' = cpu
  /\ last' = [NoCall EXCEPT !.op = "getStatus",
                            !.prev = <<last.op, last.addr, last.val>>]
  /\ budget' = budget - 1

\* cpu.setStatus(cpu.getStatus())
RestoreStatus ==
  /\ budget > 0
  /\ cpu' = setStatus(cpu, getStatus(cpu))
  /\ pre' = cpu
  /\ last' = [NoCall EXCEPT !.op = "restoreStatus", !.val = getStatus(cpu),
                            !.prev = <<last.op, last.addr, last.val>>]
  /\ ret' = -1
  /\ budget' = budget - 1

\* cpu.push(v)
Push ==
  /\ budget > 0
  /\ \E v \in {90, 346} :
       /\ cpu' = push(cpu, v)
       /\ last' = [NoCall EXCEPT !.op = "push", !.val = v,
                                 !.addr = 256 + (cpu.S % 256),
                                 !.prev = <<last.op, last.addr, last.val>>]
  /\ pre' = cpu
  /\ ret' = -1
  /\ budget' = budget - 1

\* cpu.pop()
Pop ==
  /\ budget > 0
  /\ \E r \in {pop(cpu)} :
       /\ cpu' = r.cpu
       /\ ret' = r.value
  /\ pre' = cpu
  /\ last' = [NoCall EXCEPT !.op = "pop",
                            !.prev = <<last.op, last.addr, last.val>>]
  /\ budget' = budget - 1

\* cpu.write(a, v): addresses at both ends of 4KB, of 48KB and of the address
\* space, and two above 0xFFFF
Write ==
  /\ budget > 0
  /\ \E a \in {0, 4095, 4096, 49151, 49152, 65535, 69631, 114688},
        v \in {0, 90, 346} :
       /\ cpu' = write(cpu, a, v)
       /\ last' = [NoCall EXCEPT !.op = "write", !.addr = a, !.val = v,
                                 !.prev = <<last.op, last.addr, last.val>>]
  /\ pre' = cpu
  /\ ret' = -1
  /\ budget' = budget - 1

\* cpu.read(a)
Read ==
  /\ budget > 0
  /\ \E a \in {0, 4095, 4096, 49151, 49152, 65535, 69631, 114688} :
       /\ ret' = read(cpu, a)
       /\ last' = [NoCall EXCEPT !.op = "read", !.addr = a,
                                 !.prev = <<last.op, last.addr, last.val>>]
  /\ cpu' = cpu
  /\ pre' = cpu
  /\ budget' = budget - 1

NextApi == SetStatus \/ GetStatus \/ RestoreStatus \/ Push \/ Pop \/ Write \/ Read

SpecApi == InitApi /\ [][NextApi]_vars

----------------------------------------------------------------------------
(* Properties.  `pre` is the instance as the last call found it, `cpu` as  *)
(* the call left it, `ret` what it returned.                               *)

\* C1: a step() called while a triggerNMI() request is outstanding services
\* the NMI: it pushes PC high, PC low and the status byte with B clear, sets
\* I, loads PC from 0xFFFA/0xFFFB and fetches no opcode.
C1_NextStepServicesNMI ==
  (last.op = "step" /\ pre.cls = "mose" /\ last.trig0 >= 1) =>
     /\ cpu.S = (pre.S - 3) % 256
     /\ read(cpu, 256 + pre.S) = (pre.PC \div 256) % 256
     /\ read(cpu, 256 + ((pre.S - 1) % 256)) = pre.PC % 256
     /\ read(cpu, 256 + ((pre.S - 2) % 256)) = BitAnd(getStatus(pre), 239)
     /\ Bit(read(cpu, 256 + ((pre.S - 2) % 256)), 4) = 0
     /\ cpu.I = 1
     /\ cpu.PC = read(pre, 65530) + 256 * read(pre, 65531)
     /\ cpu.opcode = pre.opcode
     /\ cpu.A = pre.A /\ cpu.X = pre.X /\ cpu.Y = pre.Y

\* C2: the NMI request is one bit: an NMI entry consumes every outstanding
\* triggerNMI(), and a step() made after an NMI entry with no triggerNMI()
\* since does not enter again but fetches the opcode at PC.
C2_SingleLatch ==
  /\ (last.op = "step" /\ last.kind = "nmi") => (last.trig0 >= 1 /\ ~cpu.nmiEdge)
  /\ (last.op = "step" /\ pre.cls = "mose" /\ last.entries >= 1 /\ last.trig0 = 0) =>
        /\ last.kind = "opcode"
        /\ cpu.opcode = read(pre, pre.PC)
        /\ cpu.totalCycles > pre.totalCycles

\* C3: a step() that fetches an opcode with no operation leaves PC at the
\* address the opcode was fetched from and A, X, Y, S, the flags and memory
\* as they were.
C3_JamStays ==
  (last.op = "step" /\ last.kind = "opcode"
     /\ instructionMap(pre)[read(pre, pre.PC) + 1][2] = "KIL") =>
     /\ cpu.PC = pre.PC % 65536
     /\ cpu.A = pre.A /\ cpu.X = pre.X /\ cpu.Y = pre.Y /\ cpu.S = pre.S
     /\ cpu.C = pre.C /\ cpu.Z = pre.Z /\ cpu.I = pre.I /\ cpu.D = pre.D
     /\ cpu.B = pre.B /\ cpu.V = pre.V /\ cpu.N = pre.N
     /\ cpu.ram = pre.ram

\* C3 witness: a second step() in a row has found the same jam opcode
C3_JammedTwice ==
  /\ last.op = "step" /\ last.kind = "opcode"
  /\ instructionMap(pre)[read(pre, pre.PC) + 1][2] = "KIL"
  /\ pre.opcode = read(pre, pre.PC)
  /\ pre.totalCycles > 0
  /\ cpu.PC = pre.PC

\* C4: PC is in 0..0xFFFF after every call.
C4_PCInRange == cpu.PC \in 0 .. 65535

\* C5: A, X, Y and S are bytes and every flag is 0 or 1, after every call.
C5_RegistersInRange ==
  /\ cpu.A \in Byte /\ cpu.X \in Byte /\ cpu.Y \in Byte /\ cpu.S \in Byte
  /\ cpu.C \in {0, 1} /\ cpu.Z \in {0, 1} /\ cpu.I \in {0, 1} /\ cpu.D \in {0, 1}
  /\ cpu.B \in {0, 1} /\ cpu.V \in {0, 1} /\ cpu.N \in {0, 1}

\* C5 witness: a decimal-mode ADC #$FF with A = 0xFF and the carry set, whose
\* corrected sum exceeds a byte before it is masked
C5_DecimalAdcDone ==
  /\ last.op = "step" /\ last.kind = "opcode"
  /\ pre.cls = "mose" /\ pre.D = 1 /\ pre.C = 1 /\ pre.A = 255
  /\ cpu.opcode = 105 /\ read(pre, pre.PC + 1) = 255
  /\ cpu.C = 1

C7_StepReturnsCyclesTaken ==
  last.op = "step" =>
     /\ ret = cpu.cycles
     /\ cpu.totalCycles = pre.totalCycles + ret

\* C8: runCycles(target) with target > 0 returns the elapsed cycles, at least
\* target, and the totalCycles before its last step was below start + target;
\* with target <= 0 it makes no step and returns 0.
C8_RunCyclesElapsed ==
  last.op = "runCycles" =>
     IF last.target > 0
     THEN /\ ret = cpu.totalCycles - pre.totalCycles
          /\ ret >= last.target
          /\ last.steps >= 1
          /\ last.before >= pre.totalCycles
          /\ last.before < pre.totalCycles + last.target
     ELSE /\ last.steps = 0
          /\ ret = 0
          /\ cpu = pre

\* C8 witness: a runCycles(8) of several steps that ends exactly on its goal
C8_RunReachedGoal ==
  /\ last.op = "runCycles" /\ last.target = 8
  /\ last.steps >= 3
  /\ ret = 8

\* C9: in class mose, a step() of LDA, LDX, LDY, ADC, SBC, AND, ORA, EOR or
\* CMP with Absolute,X, Absolute,Y or (Indirect),Y addressing returns the
\* table cost plus 1 when the indexed address is in another page than the
\* base address, and the table cost otherwise.
C9_IndexedReadPenalty ==
  LET op    == read(pre, pre.PC)
      absX  == {189, 188, 125, 253, 61, 29, 93, 221}
      absY  == {185, 190, 121, 249, 57, 25, 89, 217}
      indY  == {177, 113, 241, 49, 17, 81, 209}
      word  == read(pre, pre.PC + 1) + 256 * read(pre, pre.PC + 2)
      z     == read(pre, pre.PC + 1)
      ptr   == read(pre, z) + 256 * read(pre, (z + 1) % 256)
      base  == IF op \in indY THEN ptr ELSE word
      index == IF op \in absX THEN pre.X ELSE pre.Y
      addr  == (base + index) % 65536
      cost  == IF op \in indY THEN 5 ELSE 4
  IN (last.op = "step" /\ last.kind = "opcode" /\ pre.cls = "mose"
        /\ op \in absX \cup absY \cup indY) =>
       /\ cost = cycleTable[op + 1]
       /\ ret = cost + (IF base \div 256 # addr \div 256 THEN 1 ELSE 0)

\* C9 witness: LDA $02FF,X with X = 1 has read 0x0300 and cost 5
C9_LdaAbsXCrossed ==
  /\ last.op = "step" /\ last.kind = "opcode" /\ pre.cls = "mose"
  /\ cpu.opcode = 189 /\ pre.X = 1
  /\ read(pre, pre.PC + 1) = 255 /\ read(pre, pre.PC + 2) = 2
  /\ cpu.A = read(pre, 768)
  /\ ret = 5

\* C10: a step() of STA Absolute,X (0x9D), STA Absolute,Y (0x99) or STA
\* (Indirect),Y (0x91) returns the table cost (5, 5, 6) whether or not the
\* indexed address crosses a page, in both classes.
C10_IndexedStoreCost ==
  LET op == read(pre, pre.PC)
  IN (last.op = "step" /\ last.kind = "opcode" /\ op \in {157, 153, 145}) =>
       /\ ret = (IF op = 145 THEN 6 ELSE 5)
       /\ ret = cycleTable[op + 1]
       /\ cpu.totalCycles = pre.totalCycles + ret

\* C10 witness: STA $02FF,X with X = 1 has written 0x0300 and cost 5
C10_StaAbsXCrossed ==
  /\ last.op = "step" /\ last.kind = "opcode" /\ pre.cls = "MOSE"
  /\ cpu.opcode = 157 /\ pre.X = 1 /\ pre.A = 128
  /\ read(pre, pre.PC + 1) = 255 /\ read(pre, pre.PC + 2) = 2
  /\ read(cpu, 768) = 128 /\ read(pre, 768) # 128
  /\ ret = 5

\* C11: a step() of BCC, BCS, BEQ, BNE, BPL, BMI, BVC or BVS returns 2 when
\* the branch is not taken, 3 when it is taken to the page of the instruction
\* that follows the branch, and 4 when it is taken to another page.
C11_BranchCost ==
  LET op     == read(pre, pre.PC)
      off    == read(pre, pre.PC + 1)
      next   == (pre.PC + 2) % 65536
      target == (next + (IF off >= 128 THEN off - 256 ELSE off)) % 65536
      taken  == CASE op = 144 -> pre.C = 0   [] op = 176 -> pre.C = 1
                  [] op = 240 -> pre.Z = 1   [] op = 208 -> pre.Z = 0
                  [] op = 16  -> pre.N = 0   [] op = 48  -> pre.N = 1
                  [] op = 80  -> pre.V = 0   [] op = 112 -> pre.V = 1
                  [] OTHER    -> FALSE
  IN (last.op = "step" /\ last.kind = "opcode"
        /\ op \in {144, 176, 240, 208, 16, 48, 80, 112}) =>
       ret = (IF ~taken THEN 2
              ELSE IF next \div 256 = target \div 256 THEN 3 ELSE 4)

\* C11 witness: BNE -128 at 0x0600 with Z = 0 went to 0x0582 and cost 4
C11_BranchCrossed ==
  /\ last.op = "step" /\ last.kind = "opcode"
  /\ cpu.opcode = 208 /\ pre.Z = 0 /\ pre.PC = 1536
  /\ read(pre, 1537) = 128
  /\ cpu.PC = 1410
  /\ ret = 4

\* C12: JMP (indirect) takes the low byte of its target from the pointer and
\* the high byte from pointer + 1, except that for a pointer whose low byte
\* is 0xFF the high byte comes from the first byte of the pointer's page when
\* emulateIndirectJMPBug is set (class MOSE has no switch and always wraps)
\* and from (pointer + 1) mod 65536 when it is clear.
C12_IndirectJmpHighByte ==
  LET ptr   == read(pre, pre.PC + 1) + 256 * read(pre, pre.PC + 2)
      wraps == pre.cls = "MOSE" \/ pre.emulateIndirectJMPBug
      high  == IF ptr % 256 = 255 /\ wraps THEN ptr - 255 ELSE (ptr + 1) % 65536
  IN (last.op = "step" /\ last.kind = "opcode" /\ read(pre, pre.PC) = 108) =>
       cpu.PC = read(pre, ptr) + 256 * read(pre, high)

\* C12 witness: JMP ($02FF) with the switch clear went to the word made of
\* the bytes at 0x02FF and 0x0300
C12_JmpAcrossPage ==
  /\ last.op = "step" /\ last.kind = "opcode" /\ cpu.opcode = 108
  /\ ~pre.emulateIndirectJMPBug
  /\ read(pre, pre.PC + 1) = 255 /\ read(pre, pre.PC + 2) = 2
  /\ read(pre, 512) # read(pre, 768)
  /\ cpu.PC = read(pre, 767) + 256 * read(pre, 768)

\* C13: setStatus(getStatus()) leaves each of the seven flags as it was, and
\* getStatus() right after setStatus(b) returns b with bit 5 set, for every
\* byte b.
C13_StatusRoundTrip ==
  /\ last.op = "restoreStatus" =>
       /\ cpu.N = pre.N /\ cpu.V = pre.V /\ cpu.B = pre.B /\ cpu.D = pre.D
       /\ cpu.I = pre.I /\ cpu.Z = pre.Z /\ cpu.C = pre.C
  /\ (last.op = "getStatus" /\ last.prev[1] = "setStatus") =>
       ret = BitOr(last.prev[3], 32)

\* getStatus() after setStatus(0x4A): bit 5 is added, V, D and Z come back
C13_StatusReadBack ==
  /\ last.op = "getStatus"
  /\ last.prev = <<"setStatus", 0, 74>>
  /\ cpu.V = 1 /\ cpu.D = 1 /\ cpu.Z = 1 /\ cpu.N = 0
  /\ ret = 106

\* C14: bit 5 of the status byte is 1 wherever the byte is observed:
\* getStatus() has it set in every state, and so has the status byte that
\* PHP, BRK and the NMI entry leave on the stack.
C14_Bit5AlwaysSet ==
  /\ Bit(getStatus(cpu), 5) = 1
  /\ (last.op = "step" /\ last.kind = "opcode" /\ read(pre, pre.PC) = 8) =>
       Bit(read(cpu, 256 + pre.S), 5) = 1
  /\ (last.op = "step" /\ last.kind = "opcode" /\ read(pre, pre.PC) = 0) =>
       Bit(read(cpu, 256 + ((pre.S - 2) % 256)), 5) = 1
  /\ (last.op = "step" /\ last.kind = "nmi") =>
       Bit(read(cpu, 256 + ((pre.S - 2) % 256)), 5) = 1

\* an NMI entry with all flags clear and S = 0xFF: the byte at 0x01FD, 0 before,
\* is the pushed status 0x20
C14_NmiPushedStatus ==
  /\ last.op = "step" /\ last.kind = "nmi"
  /\ pre.S = 255 /\ getStatus(pre) = 32
  /\ read(pre, 509) = 0
  /\ read(cpu, 509) = 32

\* C15: whatever the B flag holds, the status byte pushed by PHP and by BRK
\* has bit 4 set and the one pushed by the NMI entry has bit 4 clear.
C15_PushedBreakBit ==
  /\ (last.op = "step" /\ last.kind = "opcode" /\ read(pre, pre.PC) = 8) =>
       Bit(read(cpu, 256 + pre.S), 4) = 1
  /\ (last.op = "step" /\ last.kind = "opcode" /\ read(pre, pre.PC) = 0) =>
       Bit(read(cpu, 256 + ((pre.S - 2) % 256)), 4) = 1
  /\ (last.op = "step" /\ last.kind = "nmi") =>
       Bit(read(cpu, 256 + ((pre.S - 2) % 256)), 4) = 0

\* an NMI entry with B = 1: the pushed byte is the status without bit 4
C15_NmiWithBreakSet ==
  /\ last.op = "step" /\ last.kind = "nmi"
  /\ pre.B = 1 /\ Bit(getStatus(pre), 4) = 1
  /\ read(cpu, 256 + ((pre.S - 2) % 256)) = getStatus(pre) - 16

\* C16: the stack stays in page 1.  push() stores its byte at 0x0100 + S and
\* changes no other cell, then lowers S by one modulo 256; pop() raises S by
\* one modulo 256 and returns the cell at 0x0100 + S; a pop() right after a
\* push() returns the byte pushed and puts S back.
C16_StackInPageOne ==
  /\ last.op = "push" =>
       /\ cpu.S = (pre.S - 1) % 256
       /\ last.addr \in 256..511
       /\ read(cpu, last.addr) = last.val % 256
       /\ \A a \in DOMAIN cpu.ram \cup DOMAIN pre.ram :
            cell(cpu, a) # cell(pre, a) => a = last.addr
  /\ last.op = "pop" =>
       /\ cpu.S = (pre.S + 1) % 256
       /\ ret = cell(pre, 256 + cpu.S)
       /\ cpu.ram = pre.ram
  /\ (last.op = "pop" /\ last.prev[1] = "push") =>
       /\ ret = last.prev[3] % 256
       /\ 256 + cpu.S = last.prev[2]

\* pop() at S = 0xFF leaves S = 0x00, and the push() after it stores at 0x0100
\* and leaves S = 0xFF
C16_PushAtZero ==
  /\ last.op = "push" /\ last.prev[1] = "pop"
  /\ pre.S = 0 /\ cpu.S = 255
  /\ last.addr = 256 /\ cell(cpu, 256) = 90

\* C17 as stated: for 16-bit v and w, read(v) right after write(v, w) returns w.
C17_ReadsBackWritten ==
  (/\ last.op = "read" /\ last.prev[1] = "write"
   /\ last.addr = last.prev[2]
   /\ last.addr \in 0..65535 /\ last.prev[3] \in 0..65535) =>
     ret = last.prev[3]

\* C17: for a 16-bit address v below the size of the backing memory and a
\* 16-bit value w, read(v) right after write(v, w) returns the low byte of w,
\* which is w itself when w is a byte.
C17_ReadsBackLowByte ==
  (/\ last.op = "read" /\ last.prev[1] = "write"
   /\ last.addr = last.prev[2]
   /\ last.addr \in 0..65535 /\ last.prev[3] \in 0..65535
   /\ last.addr < cpu.len) =>
     ret = last.prev[3] % 256

\* write(0x0FFF, 0x015A) to the last cell of a 4KB memory, then read(0x0FFF)
C17_LastCellReadBack ==
  /\ last.op = "read" /\ last.prev = <<"write", 4095, 346>>
  /\ last.addr = 4095 /\ cpu.len = 4096
  /\ ret = 90

\* C18: in class mose with a memory of 4, 8, 16, 32 or 48 KB, a read of an
\* address that, reduced modulo 65536, is at or above the memory size returns
\* 0xFF, and a write to such an address changes neither memory nor any
\* register, flag or counter.
C18_OutsideBacking ==
  (cpu.cls = "mose" /\ cpu.len < 65536 /\ last.addr % 65536 >= cpu.len) =>
     /\ last.op = "read" => ret = 255
     /\ last.op = "write" => cpu = pre

\* 48KB: write(0x1C000, 0x5A) is dropped and read(0x1C000) returns 0xFF
C18_ReadAboveBacking ==
  /\ cpu.cls = "mose" /\ cpu.len = 49152
  /\ last.op = "read" /\ last.addr = 114688
  /\ last.prev = <<"write", 114688, 90>>
  /\ cpu.ram = <<>>
  /\ ret = 255

\* C19: reset() leaves A = X = Y = 0, S = 0xFF, every flag 0 except I = 1,
\* PC = the word at 0xFFFC/0xFFFD, cycles = 7, totalCycles 7 more than before,
\* and memory as it was.
C19_ResetState ==
  last.op = "reset" =>
    /\ cpu.A = 0 /\ cpu.X = 0 /\ cpu.Y = 0 /\ cpu.S = 255
    /\ cpu.C = 0 /\ cpu.Z = 0 /\ cpu.D = 0 /\ cpu.B = 0 /\ cpu.V = 0 /\ cpu.N = 0
    /\ cpu.I = 1
    /\ cpu.PC = read(pre, 65532) + 256 * read(pre, 65533)
    /\ cpu.cycles = 7
    /\ cpu.totalCycles = pre.totalCycles + 7
    /\ cpu.ram = pre.ram

\* reset() after an instruction, with registers, flags and S all to be cleared
C19_ResetAfterInstruction ==
  /\ last.op = "reset"
  /\ pre.totalCycles > 0
  /\ pre.A # 0 /\ pre.X # 0 /\ pre.Y # 0 /\ pre.S # 255
  /\ pre.C = 1 /\ pre.Z = 1 /\ pre.B = 1 /\ pre.V = 1 /\ pre.N = 1
  /\ pre.PC # 1536
  /\ cpu.PC = 1536 /\ cpu.totalCycles = pre.totalCycles + 7

\* C20: BRK fetched from address p pushes the high byte and then the low byte
\* of (p + 2) mod 65536, then the status byte with bit 4 set; S ends 3 lower
\* modulo 256, I is 1 and PC is the word at 0xFFFE/0xFFFF.
C20_BrkSequence ==
  LET p == pre.PC % 65536
      r == (p + 2) % 65536
  IN (last.op = "step" /\ last.kind = "opcode" /\ read(pre, p) = 0) =>
       /\ read(cpu, 256 + pre.S) = r \div 256
       /\ read(cpu, 256 + ((pre.S - 1) % 256)) = r % 256
       /\ read(cpu, 256 + ((pre.S - 2) % 256)) = BitOr(getStatus(pre), 16)
       /\ cpu.S = (pre.S - 3) % 256
       /\ cpu.I = 1
       /\ cpu.PC = read(pre, 65534) + 256 * read(pre, 65535)

\* BRK at 0xFFFF with S = 0x00: the return address 0x0001 goes to 0x0100 and
\* 0x01FF, the status to 0x01FE, and S ends at 0xFD
C20_BrkAtTopOfMemory ==
  /\ last.op = "step" /\ last.kind = "opcode"
  /\ pre.PC = 65535 /\ read(pre, 65535) = 0
  /\ pre.S = 0 /\ pre.I = 0
  /\ read(cpu, 256) = 0 /\ read(cpu, 511) = 1
  /\ Bit(read(cpu, 510), 4) = 1
  /\ cpu.S = 253 /\ cpu.I = 1 /\ cpu.PC = 0

\* C21: RTI executed right after an NMI entry or a BRK puts S back to its
\* value before the entry, sets PC to the return address on the stack and each
\* of N, V, B, D, I, Z, C to its bit of the status byte on the stack; after an
\* NMI entry and RTI, PC and N, V, D, I, Z, C are what they were before the NMI.
C21_RtiInvertsEntry ==
  LET afterNmi == last.back[1] = "nmi"
      afterBrk == last.back[1] = "opcode" /\ read(pre, last.back[3]) = 0
      p  == read(pre, 256 + ((pre.S + 1) % 256))
      lo == read(pre, 256 + ((pre.S + 2) % 256))
      hi == read(pre, 256 + ((pre.S + 3) % 256))
      flags(c) == <<c.N, c.V, c.D, c.I, c.Z, c.C>>
      bits(b)  == <<Bit(b, 7), Bit(b, 6), Bit(b, 3), Bit(b, 2), Bit(b, 1), Bit(b, 0)>>
  IN (/\ last.op = "step" /\ last.kind = "opcode"
      /\ read(pre, pre.PC) = 64
      /\ afterNmi \/ afterBrk) =>
       /\ cpu.S = last.back[2]
       /\ cpu.PC = lo + 256 * hi
       /\ flags(cpu) = bits(p) /\ cpu.B = Bit(p, 4)
       /\ afterNmi => /\ cpu.PC = last.back[3]
                      /\ flags(cpu) = bits(last.back[4])

\* C22: a step() that services an NMI returns 7, leaves cycles = 7 and adds
\* exactly 7 to totalCycles, whatever the opcode at PC and whatever cycles held.
C22_NmiStepCostsSeven ==
  (last.op = "step" /\ last.kind = "nmi") =>
    /\ ret = 7
    /\ cpu.cycles = 7
    /\ cpu.totalCycles = pre.totalCycles + 7

\* an NMI serviced after LDA #$05 (cycles = 2), with ADC #$03 next at PC
C22_NmiAfterLda ==
  /\ last.op = "step" /\ last.kind = "nmi"
  /\ pre.cycles = 2 /\ pre.totalCycles = 2
  /\ pre.PC = 1538 /\ read(pre, pre.PC) = 105
  /\ ret = 7 /\ cpu.totalCycles = 9

\* C23: ADC with D = 0 gives A' = (A + v + c) mod 256, C' = 1 iff A + v + c >
\* 255, V' = 1 iff A and v have the same sign bit and A' the other one, Z' = 1
\* iff A' = 0 and N' = bit 7 of A'.
C23_BinaryAdc ==
  LET a == pre.A
      v == read(pre, pre.PC + 1)
      sum == a + v + pre.C
  IN (last.op = "step" /\ read(pre, pre.PC) = 105 /\ pre.D = 0) =>
       /\ cpu.A = sum % 256
       /\ cpu.C = (IF sum > 255 THEN 1 ELSE 0)
       /\ cpu.V = (IF Bit(a, 7) = Bit(v, 7) /\ Bit(cpu.A, 7) # Bit(a, 7) THEN 1 ELSE 0)
       /\ cpu.Z = (IF cpu.A = 0 THEN 1 ELSE 0)
       /\ cpu.N = Bit(cpu.A, 7)

\* A = 0x05, C = 0, D = 0, ADC #$03: A = 0x08 and C = V = Z = N = 0
C23_FivePlusThree ==
  /\ last.op = "step" /\ read(pre, pre.PC) = 105 /\ read(pre, pre.PC + 1) = 3
  /\ pre.A = 5 /\ pre.C = 0 /\ pre.D = 0
  /\ cpu.A = 8 /\ cpu.C = 0 /\ cpu.V = 0 /\ cpu.Z = 0 /\ cpu.N = 0

\* C24: ADC with D = 1 on packed-BCD bytes A and v gives the packed-BCD byte
\* of (dec(A) + dec(v) + c) mod 100, and C' = 1 iff dec(A) + dec(v) + c >= 100.
C24_DecimalAdc ==
  LET a == pre.A
      v == read(pre, pre.PC + 1)
      dec(b) == 10 * (b \div 16) + (b % 16)
      n == dec(a) + dec(v) + pre.C
  IN (/\ last.op = "step" /\ read(pre, pre.PC) = 105 /\ pre.D = 1
      /\ a \div 16 < 10 /\ a % 16 < 10 /\ v \div 16 < 10 /\ v % 16 < 10) =>
       /\ cpu.A = 16 * ((n % 100) \div 10) + (n % 10)
       /\ cpu.C = (IF n >= 100 THEN 1 ELSE 0)

\* C25: with D = 1, class mose sets Z and N after ADC from (A + v + c) mod 256
\* and after SBC from (A - v - (1 - c)) mod 256, not from the corrected
\* accumulator; C is the carry out of the corrected high nibble (ADC: the high
\* nibbles plus the low nibble's carry exceed 9; SBC: the high nibbles minus
\* the low nibble's borrow do not go below 0).
C25_DecimalFlags ==
  LET a == pre.A
      v == read(pre, pre.PC + 1)
      op == read(pre, pre.PC)
      bin == IF op = 105 THEN (a + v + pre.C) % 256
             ELSE (a - v - (1 - pre.C)) % 256
      lowCarry  == IF (a % 16) + (v % 16) + pre.C > 9 THEN 1 ELSE 0
      lowBorrow == IF (a % 16) - (v % 16) - (1 - pre.C) < 0 THEN 1 ELSE 0
  IN (/\ last.op = "step" /\ op \in {105, 233}
      /\ pre.cls = "mose" /\ pre.D = 1) =>
       /\ cpu.Z = (IF bin = 0 THEN 1 ELSE 0)
       /\ cpu.N = Bit(bin, 7)
       /\ op = 105 =>
            cpu.C = (IF (a \div 16) + (v \div 16) + lowCarry > 9 THEN 1 ELSE 0)
       /\ op = 233 =>
            cpu.C = (IF (a \div 16) - (v \div 16) - lowBorrow >= 0 THEN 1 ELSE 0)

\* 0x99 + 0x01 in decimal mode: A = 0x00 and C = 1, but Z = 0 and N = 1 from
\* the binary sum 0x9A
C25_NinetyNinePlusOne ==
  /\ last.op = "step" /\ read(pre, pre.PC) = 105 /\ read(pre, pre.PC + 1) = 1
  /\ pre.cls = "mose" /\ pre.D = 1 /\ pre.C = 0 /\ pre.A = 153
  /\ cpu.A = 0 /\ cpu.C = 1 /\ cpu.Z = 0 /\ cpu.N = 1

\* C26 as stated: for either value of D, SBC #v leaves the A, C, V, Z and N
\* that ADC of v XOR 0xFF leaves from the same state.
C26_SbcIsAdcOfComplement ==
  LET v == read(pre, pre.PC + 1)
      r == ADC(pre, BitXor(v, 255))
  IN (last.op = "step" /\ read(pre, pre.PC) = 233) =>
       <<cpu.A, cpu.C, cpu.V, cpu.Z, cpu.N>> = <<r.A, r.C, r.V, r.Z, r.N>>

\* C26: with D = 0, SBC #v leaves the A, C, V, Z and N that ADC of v XOR 0xFF
\* leaves from the same state.
C26_BinarySbcIsAdcOfComplement ==
  LET v == read(pre, pre.PC + 1)
      r == ADC(pre, BitXor(v, 255))
  IN (last.op = "step" /\ read(pre, pre.PC) = 233 /\ pre.D = 0) =>
       <<cpu.A, cpu.C, cpu.V, cpu.Z, cpu.N>> = <<r.A, r.C, r.V, r.Z, r.N>>

\* 0x10 - 0x01 with C = 1 and D = 0: A = 0x0F, as 0x10 + 0xFE + 1
C26_SixteenMinusOne ==
  /\ last.op = "step" /\ read(pre, pre.PC) = 233 /\ read(pre, pre.PC + 1) = 1
  /\ pre.D = 0 /\ pre.C = 1 /\ pre.A = 16
  /\ cpu.A = 15 /\ cpu.C = 1 /\ cpu.V = 0 /\ cpu.Z = 0 /\ cpu.N = 0

\* C27: CMP, CPX and CPY of register value r with operand v leave C = 1 iff
\* r >= v, Z = 1 iff r = v, N = bit 7 of (r - v) mod 256, and A, X, Y, V, D, I
\* and memory as they were.
C27_Compare ==
  LET op == read(pre, pre.PC)
      v == read(pre, pre.PC + 1)
      r == IF op = 201 THEN pre.A ELSE IF op = 224 THEN pre.X ELSE pre.Y
  IN (last.op = "step" /\ op \in {201, 224, 192}) =>
       /\ cpu.C = (IF r >= v THEN 1 ELSE 0)
       /\ cpu.Z = (IF r = v THEN 1 ELSE 0)
       /\ cpu.N = Bit((r - v) % 256, 7)
       /\ <<cpu.A, cpu.X, cpu.Y, cpu.V, cpu.D, cpu.I>>
            = <<pre.A, pre.X, pre.Y, pre.V, pre.D, pre.I>>
       /\ cpu.ram = pre.ram

\* CPX #$80 with X = 0x01 and all flags set: C = 0, Z = 0, N = 1 (0x81), and
\* V, D, I still set
C27_CpxBelow ==
  /\ last.op = "step" /\ read(pre, pre.PC) = 224 /\ read(pre, pre.PC + 1) = 128
  /\ pre.X = 1 /\ pre.C = 1 /\ pre.Z = 1 /\ pre.V = 1
  /\ cpu.C = 0 /\ cpu.Z = 0 /\ cpu.N = 1
  /\ cpu.V = 1 /\ cpu.D = 1 /\ cpu.I = 1

\* C28: BIT of operand v leaves Z = 1 iff (A AND v) = 0, N = bit 7 of v and
\* V = bit 6 of v, and A, C and memory as they were.
C28_Bit ==
  LET v == read(pre, read(pre, pre.PC + 1))
  IN (last.op = "step" /\ read(pre, pre.PC) = 36) =>
       /\ cpu.Z = (IF BitAnd(pre.A, v) = 0 THEN 1 ELSE 0)
       /\ cpu.N = Bit(v, 7)
       /\ cpu.V = Bit(v, 6)
       /\ cpu.A = pre.A /\ cpu.C = pre.C
       /\ cpu.ram = pre.ram

\* BIT with A = 0x0F and v = 0xF0: the AND is 0, so Z = 1, while N and V come
\* from bits 7 and 6 of v
C28_BitDisjoint ==
  /\ last.op = "step" /\ read(pre, pre.PC) = 36
  /\ pre.A = 15 /\ read(pre, 16) = 240
  /\ pre.N = 0 /\ pre.V = 0 /\ pre.Z = 0
  /\ cpu.Z = 1 /\ cpu.N = 1 /\ cpu.V = 1

\* C29: with the README's program LDA #$05; ADC #$03; STA $0200; BRK at 0x0600
\* and the reset vector at 0x0600 written to a new instance, reset() and then
\* the loop "while (opcode != 0x00) step()" end with 8 at 0x0200.
C29_SimpleProgramResult ==
  (/\ last.op = "untilBrk" /\ last.prev[1] = "reset"
   /\ pre.totalCycles = 7
   /\ read(pre, 1537) = 5) =>
     read(cpu, 512) = 8

\* C30: in the README's NMI example, after reset(), two step() calls,
\* triggerNMI() and one more step(), the byte at 0x0200 is 0xFF.
C30_NmiExampleResult ==
  (/\ last.op = "step" /\ last.back[1] = "triggerNMI"
   /\ pre.totalCycles = 13 /\ pre.PC = 1541
   /\ last.trig0 = 1 /\ last.entries <= 1
   /\ read(pre, 1537) = 0) =>
     read(cpu, 512) = 255

C32_VariantsAgreeOnCycles ==
  (last.op = "step" /\ last.kind = "opcode" /\ pre.cls = "mose") =>
    ret = step([pre EXCEPT !.cls = "MOSE"]).value

\* C33: zero-page indexing stays in page zero.  LDA zp,X and LDX zp,Y load
\* from (operand + X or Y) mod 256; LDA (zp,X) takes its pointer from
\* (operand + X) mod 256 and (operand + X + 1) mod 256; LDA (zp),Y takes its
\* pointer from operand and (operand + 1) mod 256.
C33_ZeroPageWraps ==
  LET op == read(pre, pre.PC)
      b  == read(pre, pre.PC + 1)
      zx == (b + pre.X) % 256
      word(lo, hi) == read(pre, lo) + 256 * read(pre, hi)
  IN (last.op = "step" /\ last.kind = "opcode") =>
       /\ op = 181 => cpu.A = read(pre, zx)
       /\ op = 182 => cpu.X = read(pre, (b + pre.Y) % 256)
       /\ op = 161 => cpu.A = read(pre, word(zx, (zx + 1) % 256))
       /\ op = 177 => cpu.A = read(pre, (word(b, (b + 1) % 256) + pre.Y) % 65536)

\* LDA ($FF),Y with Y = 1: the pointer 0x0380 is made of the bytes at 0x00FF
\* and 0x0000 (0x0100 holds another byte), and A is the byte at 0x0381
C33_PointerAtEndOfZeroPage ==
  /\ last.op = "step" /\ last.kind = "opcode"
  /\ read(pre, pre.PC) = 177 /\ read(pre, pre.PC + 1) = 255 /\ pre.Y = 1
  /\ read(pre, 255) = 128 /\ read(pre, 0) = 3 /\ read(pre, 256) = 255
  /\ pre.A # 255 /\ read(pre, 897) = 255
  /\ cpu.A = 255

C36_ResetDiscardsRequests ==
  /\ (last.op = "reset" /\ cpu.cls = "mose") =>
       ~cpu.nmiEdge /\ ~cpu.nmiPending /\ ~cpu.breakFlag
  /\ (last.op = "step" /\ last.back[1] = "reset") =>
       /\ last.kind = "opcode"
       /\ pre.PC = read(pre, 65532) + 256 * read(pre, 65533)
       /\ cpu.opcode = read(pre, pre.PC)
       /\ cpu = fetchExecute(pre)
  /\ (last.op = "step" /\ last.trig0 = 0) => last.kind # "nmi"
  /\ (cpu.cls = "mose" /\ last.trig = 0) => ~cpu.nmiEdge

\* triggerNMI(), triggerBreak(), reset(), step(): the step runs the LDA at
\* 0x0600 and neither returns early nor enters the handler at 0x8000
C36_StepAfterResetRunsProgram ==
  /\ last.op = "step" /\ last.back[1] = "reset" /\ last.back[5] = "nmi+break"
  /\ pre.PC = 1536 /\ read(pre, 1536) = 169
  /\ cpu.PC = 1538 /\ cpu.A = read(pre, 1537) /\ cpu.totalCycles = 9

\* C37: JSR fetched from p pushes the high byte and then the low byte of
\* p + 2 and lowers S by 2 (wrapping inside page 1); when neither the three
\* instruction bytes nor the target lie in page 1 and the target holds RTS,
\* that RTS leaves PC = p + 3 (as a 16-bit address) and S as it was before
\* the JSR.
C37_JsrRtsRoundTrip ==
  LET OutsideStack(a) == (a % 65536) \notin 256 .. 511
      p == pre.PC % 65536
      q == last.back[3] % 65536
      t == read(pre, q + 1) + 256 * read(pre, q + 2)
  IN /\ (last.op = "step" /\ last.kind = "opcode" /\ read(pre, p) = 32) =>
          /\ cpu.S = (pre.S - 2) % 256
          /\ read(cpu, 256 + pre.S) = ((p + 2) % 65536) \div 256
          /\ read(cpu, 256 + ((pre.S - 1) % 256)) = (p + 2) % 256
          /\ cpu.PC = read(pre, p + 1) + 256 * read(pre, p + 2)
     /\ (/\ last.op = "step" /\ last.kind = "opcode" /\ last.back[1] = "opcode"
         /\ read(pre, q) = 32 /\ pre.PC = t /\ read(pre, t) = 96
         /\ OutsideStack(q) /\ OutsideStack(q + 1) /\ OutsideStack(q + 2)
         /\ OutsideStack(t)) =>
          /\ cpu.PC = (q + 3) % 65536
          /\ cpu.S = last.back[2]
          /\ read(cpu, 256 + last.back[2]) = ((q + 2) % 65536) \div 256
          /\ read(cpu, 256 + ((last.back[2] - 1) % 256)) = (q + 2) % 256

\* JSR $0300 at 0xFFFD with S = 0: the return address 0xFFFF goes to 0x0100
\* and 0x01FF, and the RTS at 0x0300 comes back to 0x0000 with S = 0
C37_ReturnWithWrappedStack ==
  /\ last.op = "step" /\ last.kind = "opcode" /\ last.back[1] = "opcode"
  /\ last.back[3] = 65533 /\ last.back[2] = 0
  /\ pre.PC = 768 /\ read(pre, 768) = 96 /\ pre.S = 254
  /\ read(pre, 256) = 255 /\ read(pre, 511) = 255
  /\ cpu.PC = 0 /\ cpu.S = 0

\* C38: when PHP and then PLP are executed by consecutive steps, the PLP
\* leaves S and the flags N, V, D, I, Z, C as they were before the PHP, and
\* the B flag 1 whatever it was.
C38_PhpPlpRestoresFlags ==
  LET q  == last.back[3] % 65536
      P0 == last.back[4]
  IN (/\ last.op = "step" /\ last.kind = "opcode" /\ last.back[1] = "opcode"
      /\ read(pre, q) = 8 /\ pre.PC % 65536 = (q + 1) % 65536
      /\ read(pre, pre.PC) = 40) =>
       /\ cpu.S = last.back[2]
       /\ cpu.N = Bit(P0, 7) /\ cpu.V = Bit(P0, 6) /\ cpu.D = Bit(P0, 3)
       /\ cpu.I = Bit(P0, 2) /\ cpu.Z = Bit(P0, 1) /\ cpu.C = Bit(P0, 0)
       /\ cpu.B = 1

\* PHP; PLP with N, V, D, I, Z, C set, B clear and S = 0: the byte 0xFF goes
\* to 0x0100, S comes back to 0 and B is now 1
C38_BreakFlagSetByRoundTrip ==
  /\ last.op = "step" /\ last.kind = "opcode" /\ last.back[1] = "opcode"
  /\ last.back[3] = 1536 /\ last.back[2] = 0 /\ last.back[4] = 239
  /\ pre.PC = 1537 /\ read(pre, 1536) = 8 /\ read(pre, 1537) = 40
  /\ pre.B = 0 /\ pre.S = 255 /\ read(pre, 256) = 255
  /\ cpu.S = 0 /\ cpu.B = 1 /\ getStatus(cpu) = 255

\* C39: in class mose with D = 1, SBC #v on packed-BCD bytes A and v with
\* carry-in c leaves in A the packed-BCD encoding of
\* (dec(A) - dec(v) - (1 - c)) mod 100, and C = 1 exactly when that
\* difference is not negative.
C39_DecimalSubtract ==
  LET IsBcd(x) == x % 16 <= 9 /\ x \div 16 <= 9
      dec(x)   == 10 * (x \div 16) + (x % 16)
      bcd(n)   == 16 * (n \div 10) + (n % 10)
      v        == read(pre, pre.PC + 1)
      d        == dec(pre.A) - dec(v) - (1 - pre.C)
  IN (/\ last.op = "step" /\ last.kind = "opcode" /\ pre.cls = "mose"
      /\ read(pre, pre.PC) = 233 /\ pre.D = 1
      /\ IsBcd(pre.A) /\ IsBcd(v)) =>
       /\ cpu.A = bcd(d % 100)
       /\ cpu.C = (IF d >= 0 THEN 1 ELSE 0)

\* SED; CLC; 0x40 - 0x59 - 1 = -20: A = 0x80 with a borrow out of both digits
C39_BorrowThroughBothDigits ==
  /\ last.op = "step" /\ last.kind = "opcode" /\ pre.cls = "mose"
  /\ read(pre, pre.PC) = 233 /\ pre.D = 1 /\ pre.C = 0
  /\ pre.A = 64 /\ read(pre, pre.PC + 1) = 89
  /\ cpu.A = 128 /\ cpu.C = 0

----------------------------------------------------------------------------
(* runCycles(target) one loop iteration at a time.  The host has written a *)
(* program, may have called triggerNMI() and triggerBreak(), and calls     *)
(* runCycles once.  last.op is the position of the call: "test" before the *)
(* loop condition, "body" before the step() of the loop body, "returned"   *)
(* after the return.  last.before is `start`, last.target the argument,    *)
(* last.kind the path the latest step() took; pre is the instance at the   *)
(* call.  JavaScript runs a call to completion: control that can advance   *)
(* does advance.                                                           *)

InitRun ==
  /\ cpu \in UNION
       { LET c == setup(construct(cls, 65536), s)
         IN IF cls = "mose"
            THEN {c, triggerNMI(c), triggerBreak(c), triggerBreak(triggerNMI(c))}
            ELSE {c} :
         cls \in {"mose", "MOSE"}, s \in ProgramScenarios }
  /\ pre = cpu
  /\ last = [NoCall EXCEPT !.op = "load"]
  /\ ret = -1
  /\ budget = 1

\* const start = this.totalCycles; const goal = start + target;
RunCyclesEnter ==
  /\ last.op = "load"
  /\ budget > 0
  /\ \E target \in Targets :
       last' = [NoCall EXCEPT !.op = "test", !.target = target,
                             !.before = cpu.totalCycles]
  /\ pre' = cpu
  /\ budget' = budget - 1
  /\ UNCHANGED <<cpu, ret>>

\* while (this.totalCycles < goal): the condition holds
RunCyclesTest ==
  /\ last.op = "test"
  /\ cpu.totalCycles < last.before + last.target
  /\ last' = [last EXCEPT !.op = "body"]
  /\ UNCHANGED <<cpu, pre, ret, budget>>

\* this.step();
RunCyclesBody ==
  /\ last.op = "body"
  /\ \E r \in {step(cpu)}, k \in {stepKind(cpu)} :
       /\ cpu' = r.cpu
       /\ last' = [last EXCEPT !.op = "test", !.kind = k]
  /\ UNCHANGED <<pre, ret, budget>>

\* the condition fails: return this.totalCycles - start;
RunCyclesReturn ==
  /\ last.op = "test"
  /\ ~(cpu.totalCycles < last.before + last.target)
  /\ ret' = cpu.totalCycles - last.before
  /\ last' = [last EXCEPT !.op = "returned"]
  /\ UNCHANGED <<cpu, pre, budget>>

\* step() is straight-line code, so the call in the loop body returns: the
\* third condition says that control does not stay in front of it for ever
SpecRun ==
  /\ InitRun
  /\ [][RunCyclesEnter \/ RunCyclesTest \/ RunCyclesBody \/ RunCyclesReturn]_vars
  /\ WF_vars(RunCyclesTest)
  /\ WF_vars(RunCyclesReturn)
  /\ WF_last(last.op = "body" /\ last' = [last EXCEPT !.op = "test"])

\* C34: every runCycles(target) call returns, from every program and
\* processor state (jammed on a halt opcode, break flag set, NMI latched):
\* each loop iteration strictly increases totalCycles, except that the first
\* one may only clear the break flag; what the loop returns is what
\* runCycles computes.
C34_RunCyclesTerminates ==
  /\ [][(last.op = "body" /\ last'.op = "test") =>
          \/ cpu'.totalCycles > cpu.totalCycles
          \/ /\ cpu.breakFlag /\ last.kind = "-"
             /\ cpu' = [cpu EXCEPT !.breakFlag = FALSE]]_vars
  /\ [](last.op = "returned" =>
          /\ cpu = runCycles(pre, last.target).cpu
          /\ ret = runCycles(pre, last.target).value)
  /\ (last.op \in {"test", "body"}) ~> (last.op = "returned")

\* runCycles(8) on a processor jammed on the KIL at 0xFFFF, with the break
\* flag set and an NMI latched whose handler is a lone RTI: it returns
C34_JammedRunReturns ==
  /\ last.op = "returned" /\ last.target = 8
  /\ pre.breakFlag /\ pre.nmiEdge
  /\ pre.PC = 65535 /\ read(pre, 65535) = 2
  /\ ret >= 8 /\ cpu.totalCycles = pre.totalCycles + ret
  /\ ~cpu.breakFlag /\ ~cpu.nmiEdge /\ cpu.PC = 65535

====
